---- MODULE Spec2Model ----
(***************************************************************************)
(* Model of vir/src/ast_to_sst.rs: the lowering of typed VIR expressions   *)
(* (Expr/Stmt) to SST statements and pure expressions (Stm/Exp).           *)
(*                                                                         *)
(* Values.  An Option<T> is a sequence of length 0 (None) or 1 (Some).     *)
(* A Span is the path of the node in the input tree (a sequence of child   *)
(* numbers), so that the span a statement carries names the node it was    *)
(* produced from.  An Ident is [n |-> name] for a source name and          *)
(* [tmp |-> k] for the k-th temporary.  A UniqueIdent is <<ident, opt>>.   *)
(* A Result<T, VirErr> is a record with fail \in {"ok", "err", "panic"}.   *)
(***************************************************************************)
EXTENDS Integers, Sequences, FiniteSets, TLC

VARIABLES state, pre, expr, result, pc

vars == <<state, pre, expr, result, pc>>

None == <<>>
Some(v) == <<v>>

---------------------------------------------------------------------------
(* Types (ast::TypX) and the two unit helpers.                             *)

TBool == [t |-> "Bool"]
TInt(r) == [t |-> "Int", range |-> r]
TBoxed(ty) == [t |-> "Boxed", of |-> ty]
TTypParam(x) == [t |-> "TypParam", p |-> x]
TDatatype(path) == [t |-> "Datatype", path |-> path]

RInt == [k |-> "Int"]
RNat == [k |-> "Nat"]
RUSize == [k |-> "USize"]
RU(w) == [k |-> "U", w |-> w]
RI(w) == [k |-> "I", w |-> w]

lowered_unit_typ == TDatatype("tuple%0")

types_equal(t1, t2) == t1 = t2

---------------------------------------------------------------------------
(* SST expressions (sst::ExpX) and statements (sst::StmX).                 *)

CBool(b) == [k |-> "Bool", b |-> b]
CNat(s) == [k |-> "Nat", s |-> s]

MkExp(span, typ, x) == [span |-> span, typ |-> typ, x |-> x]

XConst(c) == [x |-> "Const", c |-> c]
XVar(id) == [x |-> "Var", id |-> id]
XVarLoc(id) == [x |-> "VarLoc", id |-> id]
XVarAt(id) == [x |-> "VarAt", id |-> id]
XLoc(e) == [x |-> "Loc", e |-> e]
XCall(f, typs, args) == [x |-> "Call", fun |-> f, typs |-> typs, args |-> args]
XCallLambda(typ, e, args) == [x |-> "CallLambda", ltyp |-> typ, e |-> e, args |-> args]
XCtor(p, v, binders) == [x |-> "Ctor", path |-> p, variant |-> v, binders |-> binders]
XUnary(op, e) == [x |-> "Unary", op |-> op, e |-> e]
XUnaryOpr(op, e) == [x |-> "UnaryOpr", opr |-> op, e |-> e]
XBinary(op, e1, e2) == [x |-> "Binary", op |-> op, e1 |-> e1, e2 |-> e2]
XIf(e0, e1, e2) == [x |-> "If", e0 |-> e0, e1 |-> e1, e2 |-> e2]
XBind(bnd, e) == [x |-> "Bind", bnd |-> bnd, e |-> e]

lowered_unit_value(span) ==
    MkExp(span, lowered_unit_typ, XCtor("tuple%0", "tuple%0", <<>>))

MkStm(span, x) == [span |-> span, x |-> x]

Dest(dest, is_init) == [dest |-> dest, is_init |-> is_init]

SAssign(lhs, rhs) == [x |-> "Assign", lhs |-> lhs, rhs |-> rhs]
SCall(f, typs, args, dest) == [x |-> "Call", fun |-> f, typs |-> typs, args |-> args, dest |-> dest]
SAssert(err, e) == [x |-> "Assert", error |-> err, e |-> e]
SAssertBV(e) == [x |-> "AssertBV", e |-> e]
SAssume(e) == [x |-> "Assume", e |-> e]
SIf(c, s1, s2) == [x |-> "If", cond |-> c, thn |-> s1, els |-> s2]
SWhile(cs, ce, body, invs) ==
    [x |-> "While", cond_stms |-> cs, cond_exp |-> ce, body |-> body, invs |-> invs,
     typ_inv_vars |-> <<>>, modified_vars |-> <<>>]
SBlock(stms) == [x |-> "Block", stms |-> stms]
SDeadEnd(s) == [x |-> "DeadEnd", s |-> s]
SOpenInvariant(inv, id, typ, body, atomicity) ==
    [x |-> "OpenInvariant", inv |-> inv, id |-> id, ityp |-> typ, body |-> body,
     atomicity |-> atomicity]
SFuel(f, n) == [x |-> "Fuel", fun |-> f, fuel |-> n]

LocalDeclX(ident, typ, mutable) == [ident |-> ident, typ |-> typ, mutable |-> mutable]

---------------------------------------------------------------------------
(* enum ReturnValue and its two conversions.                               *)

RvSome(e) == [k |-> "Some", e |-> e]
RvImplicitUnit(span) == [k |-> "ImplicitUnit", span |-> span]
RvNever == [k |-> "Never"]

to_value(rv) ==
    CASE rv.k = "Some" -> Some(rv.e)
      [] rv.k = "ImplicitUnit" -> Some(lowered_unit_value(rv.span))
      [] rv.k = "Never" -> None

(* Results of the translation functions: Ok((stms, rv)), Err(VirErr), or a *)
(* panic (the process aborts).  state is the State as the call left it.    *)
Ok(st, stms, rv) == [fail |-> "ok", msg |-> "", state |-> st, stms |-> stms, rv |-> rv]
Err(st, msg) == [fail |-> "err", msg |-> msg, state |-> st, stms |-> <<>>, rv |-> RvNever]
Panic(st, msg) == [fail |-> "panic", msg |-> msg, state |-> st, stms |-> <<>>, rv |-> RvNever]

---------------------------------------------------------------------------
(* air::scope_map::ScopeMap<Ident, Option<u64>>: a stack of scopes, each a *)
(* finite map.  Inserting a key the innermost scope already holds fails.   *)

MapPut(f, k, v) == [y \in DOMAIN f \cup {k} |-> IF y = k THEN v ELSE f[y]]
EmptyMap == [y \in {} |-> 0]

scope_map_new == <<>>
scope_map_push(m) == Append(m, EmptyMap)
scope_map_pop(m) == SubSeq(m, 1, Len(m) - 1)
scope_map_num_scopes(m) == Len(m)
scope_map_can_insert(m, k) == Len(m) > 0 /\ k \notin DOMAIN m[Len(m)]
scope_map_insert(m, k, v) == [m EXCEPT ![Len(m)] = MapPut(m[Len(m)], k, v)]
scope_map_scopes_of(m, k) == {i \in 1..Len(m) : k \in DOMAIN m[i]}
scope_map_contains(m, k) == scope_map_scopes_of(m, k) # {}
ScopeMax(S) == CHOOSE i \in S : \A j \in S : j <= i
scope_map_get(m, k) == m[ScopeMax(scope_map_scopes_of(m, k))][k]
(* the 0-based number of the scope that holds the visible binding of k     *)
scope_map_scope_of_key(m, k) == ScopeMax(scope_map_scopes_of(m, k)) - 1

---------------------------------------------------------------------------
(* struct State and its methods.  The field aborted records a panic raised *)
(* inside a State method (an expect or assert that failed).                *)

TmpIdent(k) == [tmp |-> k]
prefix_temp_var(k) == TmpIdent(k)
is_temp_var(x) == "tmp" \in DOMAIN x

State_new ==
    [view_as_spec |-> FALSE,
     next_var |-> 0,
     local_decls |-> <<>>,
     rename_map |-> scope_map_push(scope_map_new),
     rename_counters |-> EmptyMap,
     dont_rename |-> {},
     ret_post |-> None,
     aborted |-> ""]

Abort(st, msg) == IF st.aborted = "" THEN [st EXCEPT !.aborted = msg] ELSE st

(* next_temp: the state with the counter advanced, the name and the Var.   *)
next_temp(st, span, typ) ==
    LET n == st.next_var + 1
        x == prefix_temp_var(n)
    IN [state |-> [st EXCEPT !.next_var = n],
        temp |-> x,
        temp_var |-> MkExp(span, typ, XVar(<<x, Some(0)>>))]

push_scope(st) == [st EXCEPT !.rename_map = scope_map_push(st.rename_map)]

pop_scope(st) ==
    IF scope_map_num_scopes(st.rename_map) = 0
    THEN Abort(st, "pop_scope")
    ELSE [st EXCEPT !.rename_map = scope_map_pop(st.rename_map)]

rename_map_insert(st, x, v, what) ==
    IF scope_map_can_insert(st.rename_map, x)
    THEN [st EXCEPT !.rename_map = scope_map_insert(st.rename_map, x, v)]
    ELSE Abort(st, what)

has_var(st, x) == scope_map_contains(st.rename_map, x)

(* the lookup that takes the outermost binding of the name                 *)
get_var_outermost(st, x) ==
    LET scopes == scope_map_scopes_of(st.rename_map, x)
    IN <<x, st.rename_map[CHOOSE i \in scopes : \A j \in scopes : i <= j][x]>>

get_var_unique_id(st, x) == <<x, scope_map_get(st.rename_map, x)>>

new_statement_var(st, x) ==
    rename_map_insert([st EXCEPT !.rename_counters = MapPut(st.rename_counters, x, 0)],
                      x, Some(0), "new var")

declare_expression_var(st, x) == rename_map_insert(st, x, None, "declare var")

(* an allocation that starts every name over at generation 0              *)
alloc_from_zero(st, x) ==
    [state |-> [st EXCEPT !.rename_counters = MapPut(st.rename_counters, x, 0)],
     id |-> <<x, Some(0)>>]

(* alloc_unique_var: the state with the counter of x advanced, and the id. *)
alloc_unique_var(st, x) ==
    LET i == IF x \in DOMAIN st.rename_counters THEN st.rename_counters[x] + 1 ELSE 0
    IN [state |-> [st EXCEPT !.rename_counters = MapPut(st.rename_counters, x, i)],
        id |-> <<x, Some(i)>>]

insert_unique_var(st, id) == rename_map_insert(st, id[1], id[2], "declare var")

RECURSIVE declare_binders(_, _)
declare_binders(st, binders) ==
    IF binders = <<>> THEN st
    ELSE declare_binders(declare_expression_var(st, Head(binders).name), Tail(binders))

declare_new_var(st, ident, typ, mutable, may_need_rename) ==
    LET a == alloc_unique_var(st, ident)
        st1 == IF may_need_rename
               THEN insert_unique_var(a.state, a.id)
               ELSE new_statement_var(st, ident)
        unique_ident == IF may_need_rename THEN a.id ELSE <<ident, Some(0)>>
        decl == LocalDeclX(unique_ident, typ, mutable)
    IN [state |-> [st1 EXCEPT !.local_decls = Append(st1.local_decls, decl)],
        id |-> unique_ident]

finalize(st) ==
    LET st1 == pop_scope(st)
    IN IF scope_map_num_scopes(st1.rename_map) = 0 THEN st1
       ELSE Abort(st1, "assert_eq num_scopes 0")

---------------------------------------------------------------------------
(* VIR expressions (ast::ExprX) and statements (ast::StmtX): the input.    *)

MkExpr(span, typ, x) == [span |-> span, typ |-> typ, x |-> x]

EConst(c) == [x |-> "Const", c |-> c]
EVar(n) == [x |-> "Var", name |-> n]
EVarLoc(n) == [x |-> "VarLoc", name |-> n]
EVarAt(n) == [x |-> "VarAt", name |-> n]
ELoc(e) == [x |-> "Loc", e |-> e]
EAssign(init_not_mut, lhs, rhs) ==
    [x |-> "Assign", init_not_mut |-> init_not_mut, lhs |-> lhs, rhs |-> rhs]
ECallStatic(f, typs, args) ==
    [x |-> "Call", target |-> [k |-> "Static", fun |-> f, typs |-> typs], args |-> args]
ECallFnSpec(e, args) == [x |-> "Call", target |-> [k |-> "FnSpec", e |-> e], args |-> args]
ECtor(p, v, binders, update) ==
    [x |-> "Ctor", path |-> p, variant |-> v, binders |-> binders, update |-> update]
EUnary(op, e) == [x |-> "Unary", op |-> op, e |-> e]
EUnaryOpr(op, e) == [x |-> "UnaryOpr", opr |-> op, e |-> e]
EBinary(op, e1, e2) == [x |-> "Binary", op |-> op, e1 |-> e1, e2 |-> e2]
EQuant(q, binders, body) == [x |-> "Quant", quant |-> q, binders |-> binders, body |-> body]
EClosure(params, body) == [x |-> "Closure", params |-> params, body |-> body]
EChoose(params, cond, body) ==
    [x |-> "Choose", params |-> params, cond |-> cond, body |-> body]
EFuel(f, n) == [x |-> "Fuel", fun |-> f, fuel |-> n]
EHeader == [x |-> "Header"]
EAdmit == [x |-> "Admit"]
EForall(vs, require, ensure, proof) ==
    [x |-> "Forall", vars |-> vs, require |-> require, ensure |-> ensure, proof |-> proof]
EAssertBV(e) == [x |-> "AssertBV", e |-> e]
EIf(e0, e1, e2opt) == [x |-> "If", e0 |-> e0, e1 |-> e1, e2 |-> e2opt]
EWhile(cond, body, invs) == [x |-> "While", cond |-> cond, body |-> body, invs |-> invs]
EOpenInvariant(inv, binder, body, atomicity) ==
    [x |-> "OpenInvariant", inv |-> inv, binder |-> binder, body |-> body,
     atomicity |-> atomicity]
EReturn(eopt) == [x |-> "Return", ret |-> eopt]
EBlock(stmts, body_opt) == [x |-> "Block", stmts |-> stmts, body |-> body_opt]

MkStmt(span, x) == [span |-> span, x |-> x]
StmtExpr(e) == [x |-> "Expr", e |-> e]
StmtDecl(pattern, init) == [x |-> "Decl", pattern |-> pattern, init |-> init]
PatternVar(span, typ, name, mutable) ==
    [span |-> span, typ |-> typ, x |-> [x |-> "Var", name |-> name, mutable |-> mutable]]

Binder(name, a) == [name |-> name, a |-> a]

OpAnd == [k |-> "And"]
OpOr == [k |-> "Or"]
OpImplies == [k |-> "Implies"]
OpNe == [k |-> "Ne"]
OpEq == [k |-> "Eq"]
OpArith(arith, inferred_mode) == [k |-> "Arith", arith |-> arith, mode |-> inferred_mode]

UNot == [k |-> "Not"]
UClip(r) == [k |-> "Clip", range |-> r]
OprBox(ty) == [k |-> "Box", typ |-> ty]
OprUnbox(ty) == [k |-> "Unbox", typ |-> ty]
OprHasType(ty) == [k |-> "HasType", typ |-> ty]
OprField(f) == [k |-> "Field", field |-> f]

---------------------------------------------------------------------------
(* Ctx: the function table and the inferred modes the pass reads.          *)

ctx_func_map ==
    [f \in {"fs", "fp", "fe", "fv", "fpv"} |->
        CASE f = "fs" -> [mode |-> "Spec", has_return |-> TRUE]
          [] f = "fp" -> [mode |-> "Proof", has_return |-> TRUE]
          [] f = "fe" -> [mode |-> "Exec", has_return |-> TRUE]
          [] f = "fv" -> [mode |-> "Exec", has_return |-> FALSE]
          [] f = "fpv" -> [mode |-> "Proof", has_return |-> FALSE]]

ctx_inferred_modes ==
    [m \in {"mS", "mP", "mE"} |->
        CASE m = "mS" -> "Spec" [] m = "mP" -> "Proof" [] m = "mE" -> "Exec"]

(* crate::triggers::build_triggers: the triggers chosen for a body.        *)
build_triggers(span, vs, exp) == [auto |-> vs]

(* air::errors::error and error_with_label(..).secondary_label(..)         *)
air_error(msg, span) == [msg |-> msg, span |-> span, labels |-> <<>>]
air_error_with_labels(msg, span, label, span2, label2) ==
    [msg |-> msg, span |-> span, labels |-> <<<<span, label>>, <<span2, label2>>>>]

---------------------------------------------------------------------------
(* map_exp_visitor: exp with f applied to each sub-expression, the         *)
(* innermost first; f is the closure of finalize_exp                       *)
RECURSIVE finalize_exp(_, _)
RECURSIVE finalize_exps(_, _)
RECURSIVE finalize_binders(_, _)

finalize_exps(st, es) ==
    IF es = <<>> THEN <<>>
    ELSE <<finalize_exp(st, Head(es))>> \o finalize_exps(st, Tail(es))

finalize_binders(st, bs) ==
    IF bs = <<>> THEN <<>>
    ELSE <<Binder(Head(bs).name, finalize_exp(st, Head(bs).a))>>
         \o finalize_binders(st, Tail(bs))

map_bnd_visitor(st, bnd) ==
    CASE bnd.x.x = "Let" -> [bnd EXCEPT !.x.binders = finalize_binders(st, @)]
      [] bnd.x.x = "Choose" -> [bnd EXCEPT !.x.cond = finalize_exp(st, @)]
      [] OTHER -> bnd

map_exp_visitor(st, exp) ==
    CASE exp.x.x = "Loc" -> [exp EXCEPT !.x.e = finalize_exp(st, @)]
      [] exp.x.x = "Call" -> [exp EXCEPT !.x.args = finalize_exps(st, @)]
      [] exp.x.x = "CallLambda" ->
            [exp EXCEPT !.x.e = finalize_exp(st, @), !.x.args = finalize_exps(st, @)]
      [] exp.x.x = "Ctor" -> [exp EXCEPT !.x.binders = finalize_binders(st, @)]
      [] exp.x.x \in {"Unary", "UnaryOpr"} -> [exp EXCEPT !.x.e = finalize_exp(st, @)]
      [] exp.x.x = "Binary" ->
            [exp EXCEPT !.x.e1 = finalize_exp(st, @), !.x.e2 = finalize_exp(st, @)]
      [] exp.x.x = "If" ->
            [exp EXCEPT !.x.e0 = finalize_exp(st, @), !.x.e1 = finalize_exp(st, @),
                        !.x.e2 = finalize_exp(st, @)]
      [] exp.x.x = "Bind" ->
            [exp EXCEPT !.x.bnd = map_bnd_visitor(st, @), !.x.e = finalize_exp(st, @)]
      [] OTHER -> exp

(* a closure that erases the generation of every variable                  *)
erase_every_var(st, exp) ==
    IF exp.x.x = "Var" THEN MkExp(exp.span, exp.typ, XVar(<<exp.x.id[1], None>>))
    ELSE exp

(* the closure of finalize_exp                                             *)
erase_unused_unique_id(st, exp) ==
    IF exp.x.x = "Var" /\ exp.x.id \in st.dont_rename
    THEN MkExp(exp.span, exp.typ, XVar(<<exp.x.id[1], None>>))
    ELSE exp

finalize_exp(st, exp) == erase_unused_unique_id(st, map_exp_visitor(st, exp))

(* map_stm_exp_visitor: stm with finalize_exp applied to each expression   *)
RECURSIVE finalize_stm(_, _)
RECURSIVE finalize_stms(_, _)

finalize_stms(st, stms) ==
    IF stms = <<>> THEN <<>>
    ELSE <<finalize_stm(st, Head(stms))>> \o finalize_stms(st, Tail(stms))

finalize_dest(st, dest) == Dest(finalize_exp(st, dest.dest), dest.is_init)

finalize_stm(st, stm) ==
    CASE stm.x.x = "Assign" ->
            [stm EXCEPT !.x.lhs = finalize_dest(st, @), !.x.rhs = finalize_exp(st, @)]
      [] stm.x.x = "Call" ->
            [stm EXCEPT !.x.args = finalize_exps(st, @),
                        !.x.dest = IF @ = None THEN None ELSE Some(finalize_dest(st, @[1]))]
      [] stm.x.x \in {"Assert", "AssertBV", "Assume"} ->
            [stm EXCEPT !.x.e = finalize_exp(st, @)]
      [] stm.x.x = "If" ->
            [stm EXCEPT !.x.cond = finalize_exp(st, @),
                        !.x.thn = finalize_stm(st, @),
                        !.x.els = finalize_stms(st, @)]
      [] stm.x.x = "While" ->
            [stm EXCEPT !.x.cond_stms = finalize_stms(st, @),
                        !.x.cond_exp = finalize_exp(st, @),
                        !.x.body = finalize_stm(st, @),
                        !.x.invs = finalize_exps(st, @)]
      [] stm.x.x = "Block" -> [stm EXCEPT !.x.stms = finalize_stms(st, @)]
      [] stm.x.x = "DeadEnd" -> [stm EXCEPT !.x.s = finalize_stm(st, @)]
      [] stm.x.x = "OpenInvariant" ->
            [stm EXCEPT !.x.inv = finalize_exp(st, @), !.x.body = finalize_stm(st, @)]
      [] OTHER -> stm

(* what the caller does with a ReturnValue                                 *)
finalize_rv(st, rv) ==
    IF rv.k = "Some" THEN RvSome(finalize_exp(st, rv.e)) ELSE rv

(* The free functions below expr_to_stm_opt.                               *)

var_loc_exp(span, typ, lhs) == MkExp(span, typ, XVarLoc(lhs))

init_var(span, x, exp) ==
    MkStm(span, SAssign(Dest(var_loc_exp(exp.span, exp.typ, x), TRUE), exp))

get_function(name) ==
    IF name \in DOMAIN ctx_func_map THEN Some(ctx_func_map[name]) ELSE None

(* a test that lets proof functions be expressions too                    *)
function_can_be_exp_unless_exec(path) ==
    IF path \notin DOMAIN ctx_func_map
    THEN [fail |-> "err", msg |-> "could not find function", b |-> FALSE]
    ELSE [fail |-> "ok", msg |-> "", b |-> ctx_func_map[path].mode # "Exec"]

(* Result<bool, VirErr>                                                    *)
function_can_be_exp(path) ==
    IF get_function(path) = None
    THEN [fail |-> "err", msg |-> "could not find function", b |-> FALSE]
    ELSE [fail |-> "ok", msg |-> "", b |-> get_function(path)[1].mode = "Spec"]

assume_false(span) == MkStm(span, SAssume(MkExp(span, TBool, XConst(CBool(FALSE)))))

is_const_true(e) == e.x.x = "Const" /\ e.x.c.k = "Bool" /\ e.x.c.b

(* a test that finds the end of every loop reachable                       *)
loop_end_always_reachable(e) == TRUE

can_control_flow_reach_after_loop(e) == ~is_const_true(e.x.cond)

stms_to_one_stm(span, stms) ==
    IF Len(stms) = 1 THEN stms[1] ELSE MkStm(span, SBlock(stms))

stms_to_one_stm_opt(span, stms) ==
    IF Len(stms) = 0 THEN None ELSE Some(stms_to_one_stm(span, stms))

(* TRUE for Ok(()), FALSE for the error "expressions with no effect ..."   *)
(* a test that accepts every value                                         *)
any_value_accepted(rv) == TRUE

check_unit_or_never(rv) ==
    CASE rv.k = "ImplicitUnit" -> TRUE
      [] rv.k = "Never" -> TRUE
      [] rv.k = "Some" -> rv.e.x.x = "Var" /\ is_temp_var(rv.e.x.id[1])

RECURSIVE is_small_exp(_)
RECURSIVE is_small_exp_or_loc(_)

is_small_exp(exp) ==
    CASE exp.x.x = "Const" -> TRUE
      [] exp.x.x \in {"Var", "VarAt"} -> TRUE
      [] exp.x.x = "Old" -> TRUE
      [] exp.x.x = "Unary" ->
            exp.x.op.k \in {"Not", "Clip"} /\ is_small_exp_or_loc(exp.x.e)
      [] exp.x.x = "UnaryOpr" ->
            exp.x.opr.k \in {"Box", "Unbox"} /\ is_small_exp_or_loc(exp.x.e)
      [] OTHER -> FALSE

(* a test that finds every argument small                                  *)
all_small(exp) == TRUE

is_small_exp_or_loc(exp) ==
    IF exp.x.x = "Loc" THEN TRUE ELSE is_small_exp(exp)

(* the loop of stm_call over the arguments (each an <<Exp, Typ>>)          *)
RECURSIVE stm_call_args(_, _, _, _)
stm_call_args(st, args, small_args, stms) ==
    IF args = <<>> THEN [state |-> st, small_args |-> small_args, stms |-> stms]
    ELSE LET arg == Head(args)
         IN IF is_small_exp_or_loc(arg[1])
            THEN stm_call_args(st, Tail(args), Append(small_args, arg[1]), stms)
            ELSE LET hoisted(t, d) ==
                        stm_call_args(d.state, Tail(args), Append(small_args, t.temp_var),
                                      Append(stms, init_var(arg[1].span, d.id, arg[1])))
                     with_temp(t) ==
                        hoisted(t, declare_new_var(t.state, t.temp, arg[2], FALSE, FALSE))
                 IN with_temp(next_temp(st, arg[1].span, arg[2]))

stm_call(st, span, name, typs, args, dest) ==
    LET with_args(a) ==
            [state |-> a.state,
             stm |-> stms_to_one_stm(span,
                        Append(a.stms, MkStm(span, SCall(name, typs, a.small_args, dest))))]
    IN with_args(stm_call_args(st, args, <<>>, <<>>))

(* what unwrap_or_return_never! returns when the value is Never            *)
unwrap_or_return_never(st, stms) == Ok(st, stms, RvNever)

(* a conditional that always goes through a temp                           *)
if_to_stm_never_pure(st, e, stms0, e0, stms1, e1, stms2, e2) ==
    IF to_value(e0) = None THEN [state |-> st, stms |-> stms0, rv |-> RvNever]
    ELSE
    LET c == to_value(e0)[1]
        plain_if == MkStm(e.span, SIf(c, stms_to_one_stm(e.span, stms1),
                                      stms_to_one_stm_opt(e.span, stms2)))
    IN CASE e1.k = "ImplicitUnit" \/ e2.k = "ImplicitUnit" ->
              [state |-> IF types_equal(e.typ, lowered_unit_typ) THEN st
                         ELSE Abort(st, "assert types_equal unit"),
               stms |-> Append(stms0, plain_if),
               rv |-> RvImplicitUnit(e.span)]
         [] e1.k # "ImplicitUnit" /\ e2.k # "ImplicitUnit"
               /\ (e1.k = "Never" \/ e2.k = "Never") ->
              [state |-> st,
               stms |-> Append(stms0, plain_if),
               rv |-> IF e1.k = "Never" THEN e2 ELSE e1]
         [] e1.k = "Some" /\ e2.k = "Some" ->
              IF FALSE
              THEN [state |-> st,
                    stms |-> stms0,
                    rv |-> RvSome(MkExp(e.span, e.typ, XIf(c, e1.e, e2.e)))]
              ELSE LET t == next_temp(st, e.span, e.typ)
                       d == declare_new_var(t.state, t.temp, e.typ, FALSE, FALSE)
                       s1 == Append(stms1, init_var(e.span, d.id, e1.e))
                       s2 == Append(stms2, init_var(e.span, d.id, e2.e))
                       if_stmt == MkStm(e.span, SIf(c, stms_to_one_stm(e.span, s1),
                                                    stms_to_one_stm_opt(e.span, s2)))
                   IN [state |-> d.state,
                       stms |-> Append(stms0, if_stmt),
                       rv |-> RvSome(t.temp_var)]

(* a conditional whose else branch does not assign the temp                *)
if_to_stm_else_unassigned(st, e, stms0, e0, stms1, e1, stms2, e2) ==
    IF to_value(e0) = None THEN [state |-> st, stms |-> stms0, rv |-> RvNever]
    ELSE
    LET c == to_value(e0)[1]
        plain_if == MkStm(e.span, SIf(c, stms_to_one_stm(e.span, stms1),
                                      stms_to_one_stm_opt(e.span, stms2)))
    IN CASE e1.k = "ImplicitUnit" \/ e2.k = "ImplicitUnit" ->
              [state |-> IF types_equal(e.typ, lowered_unit_typ) THEN st
                         ELSE Abort(st, "assert types_equal unit"),
               stms |-> Append(stms0, plain_if),
               rv |-> RvImplicitUnit(e.span)]
         [] e1.k # "ImplicitUnit" /\ e2.k # "ImplicitUnit"
               /\ (e1.k = "Never" \/ e2.k = "Never") ->
              [state |-> st,
               stms |-> Append(stms0, plain_if),
               rv |-> IF e1.k = "Never" THEN e2 ELSE e1]
         [] e1.k = "Some" /\ e2.k = "Some" ->
              IF Len(stms1) = 0 /\ Len(stms2) = 0
              THEN [state |-> st,
                    stms |-> stms0,
                    rv |-> RvSome(MkExp(e.span, e.typ, XIf(c, e1.e, e2.e)))]
              ELSE LET t == next_temp(st, e.span, e.typ)
                       d == declare_new_var(t.state, t.temp, e.typ, FALSE, FALSE)
                       s1 == Append(stms1, init_var(e.span, d.id, e1.e))
                       s2 == stms2
                       if_stmt == MkStm(e.span, SIf(c, stms_to_one_stm(e.span, s1),
                                                    stms_to_one_stm_opt(e.span, s2)))
                   IN [state |-> d.state,
                       stms |-> Append(stms0, if_stmt),
                       rv |-> RvSome(t.temp_var)]

(* a conditional that yields Never as soon as one branch does              *)
if_to_stm_never_wins(st, e, stms0, e0, stms1, e1, stms2, e2) ==
    IF to_value(e0) = None THEN [state |-> st, stms |-> stms0, rv |-> RvNever]
    ELSE
    LET c == to_value(e0)[1]
        plain_if == MkStm(e.span, SIf(c, stms_to_one_stm(e.span, stms1),
                                      stms_to_one_stm_opt(e.span, stms2)))
    IN CASE e1.k = "Never" \/ e2.k = "Never" ->
              [state |-> st,
               stms |-> Append(stms0, plain_if),
               rv |-> RvNever]
         [] e1.k # "Never" /\ e2.k # "Never"
               /\ (e1.k = "ImplicitUnit" \/ e2.k = "ImplicitUnit") ->
              [state |-> IF types_equal(e.typ, lowered_unit_typ) THEN st
                         ELSE Abort(st, "assert types_equal unit"),
               stms |-> Append(stms0, plain_if),
               rv |-> RvImplicitUnit(e.span)]
         [] e1.k = "Some" /\ e2.k = "Some" ->
              IF Len(stms1) = 0 /\ Len(stms2) = 0
              THEN [state |-> st,
                    stms |-> stms0,
                    rv |-> RvSome(MkExp(e.span, e.typ, XIf(c, e1.e, e2.e)))]
              ELSE LET t == next_temp(st, e.span, e.typ)
                       d == declare_new_var(t.state, t.temp, e.typ, FALSE, FALSE)
                       s1 == Append(stms1, init_var(e.span, d.id, e1.e))
                       s2 == Append(stms2, init_var(e.span, d.id, e2.e))
                       if_stmt == MkStm(e.span, SIf(c, stms_to_one_stm(e.span, s1),
                                                    stms_to_one_stm_opt(e.span, s2)))
                   IN [state |-> d.state,
                       stms |-> Append(stms0, if_stmt),
                       rv |-> RvSome(t.temp_var)]

if_to_stm(st, e, stms0, e0, stms1, e1, stms2, e2) ==
    IF to_value(e0) = None THEN [state |-> st, stms |-> stms0, rv |-> RvNever]
    ELSE
    LET c == to_value(e0)[1]
        plain_if == MkStm(e.span, SIf(c, stms_to_one_stm(e.span, stms1),
                                      stms_to_one_stm_opt(e.span, stms2)))
    IN CASE e1.k = "ImplicitUnit" \/ e2.k = "ImplicitUnit" ->
              [state |-> IF types_equal(e.typ, lowered_unit_typ) THEN st
                         ELSE Abort(st, "assert types_equal unit"),
               stms |-> Append(stms0, plain_if),
               rv |-> RvImplicitUnit(e.span)]
         [] e1.k # "ImplicitUnit" /\ e2.k # "ImplicitUnit"
               /\ (e1.k = "Never" \/ e2.k = "Never") ->
              [state |-> st,
               stms |-> Append(stms0, plain_if),
               rv |-> IF e1.k = "Never" THEN e2 ELSE e1]
         [] e1.k = "Some" /\ e2.k = "Some" ->
              IF Len(stms1) = 0 /\ Len(stms2) = 0
              THEN [state |-> st,
                    stms |-> stms0,
                    rv |-> RvSome(MkExp(e.span, e.typ, XIf(c, e1.e, e2.e)))]
              ELSE LET t == next_temp(st, e.span, e.typ)
                       d == declare_new_var(t.state, t.temp, e.typ, FALSE, FALSE)
                       s1 == Append(stms1, init_var(e.span, d.id, e1.e))
                       s2 == Append(stms2, init_var(e.span, d.id, e2.e))
                       if_stmt == MkStm(e.span, SIf(c, stms_to_one_stm(e.span, s1),
                                                    stms_to_one_stm_opt(e.span, s2)))
                   IN [state |-> d.state,
                       stms |-> Append(stms0, if_stmt),
                       rv |-> RvSome(t.temp_var)]

---------------------------------------------------------------------------
(* expr_to_stm_opt and the functions that recurse with it.  Each takes the *)
(* State and returns the State it leaves in the field state.               *)

RECURSIVE expr_to_stm_opt(_, _)
RECURSIVE stmt_to_stm(_, _)
RECURSIVE expr_get_call(_, _)
RECURSIVE expr_get_call_args(_, _, _, _)
RECURSIVE ctor_binders(_, _, _, _)
RECURSIVE pure_exps(_, _, _)
RECURSIVE block_stmts(_, _)

mk_exp(e, x) == MkExp(e.span, e.typ, x)

(* Result<Option<(Vec<Stm>, ReturnedCall)>, VirErr>: call.k is "None" for  *)
(* Ok(None), "Never" for ReturnedCall::Never and "Call" for a call.        *)
GotCall(st, stms, call) ==
    [fail |-> "ok", msg |-> "", state |-> st, stms |-> stms, call |-> call]
NoCall(fail, st, msg) ==
    [fail |-> fail, msg |-> msg, state |-> st, stms |-> <<>>, call |-> [k |-> "None"]]

expr_get_call_args(st, args, stms, exps) ==
    IF args = <<>>
    THEN [fail |-> "ok", msg |-> "", state |-> st, stms |-> stms, never |-> FALSE,
          exps |-> exps]
    ELSE LET arg == Head(args)
             lowered(r) ==
                IF r.fail # "ok"
                THEN [fail |-> r.fail, msg |-> r.msg, state |-> r.state, stms |-> <<>>,
                      never |-> FALSE, exps |-> <<>>]
                ELSE IF to_value(r.rv) = None
                THEN [fail |-> "ok", msg |-> "", state |-> r.state,
                      stms |-> stms \o r.stms, never |-> TRUE, exps |-> exps]
                ELSE expr_get_call_args(r.state, Tail(args), stms \o r.stms,
                                        Append(exps, <<to_value(r.rv)[1], arg.typ>>))
         IN lowered(expr_to_stm_opt(st, arg))

expr_get_call(st, e) ==
    IF e.x.x # "Call" THEN GotCall(st, <<>>, [k |-> "None"])
    ELSE IF e.x.target.k = "FnSpec"
    THEN NoCall("panic", st, "internal error: CallTarget::FnSpec")
    ELSE LET f == get_function(e.x.target.fun)
             with_args(a) ==
                IF a.fail # "ok" THEN NoCall(a.fail, a.state, a.msg)
                ELSE IF a.never THEN GotCall(a.state, a.stms, [k |-> "Never"])
                ELSE IF f = None THEN NoCall("err", a.state, "could not find function")
                ELSE GotCall(a.state, a.stms,
                             [k |-> "Call", fun |-> e.x.target.fun,
                              typs |-> e.x.target.typs,
                              has_return |-> f[1].has_return, args |-> a.exps])
         IN with_args(expr_get_call_args(st, e.x.args, <<>>, <<>>))

expr_must_be_call_stm(st, e) ==
    IF e.x.x = "Call" /\ e.x.target.k = "Static"
    THEN LET test(c) ==
                IF c.fail # "ok" THEN NoCall(c.fail, st, c.msg)
                ELSE IF ~c.b THEN expr_get_call(st, e)
                ELSE GotCall(st, <<>>, [k |-> "None"])
         IN test(function_can_be_exp(e.x.target.fun))
    ELSE GotCall(st, <<>>, [k |-> "None"])

expr_to_stm_or_error(st, e) ==
    LET lowered(r) ==
            IF r.fail # "ok" THEN r
            ELSE IF to_value(r.rv) = None
            THEN Err(r.state, "expression must produce a value")
            ELSE Ok(r.state, r.stms, RvSome(to_value(r.rv)[1]))
    IN lowered(expr_to_stm_opt(st, e))

(* the value is taken and the statements are dropped                       *)
pure_exp_drops_stms(st, e) ==
    LET lowered(r) == IF r.fail # "ok" THEN r ELSE Ok(r.state, <<>>, r.rv)
    IN lowered(expr_to_stm_or_error(st, e))

(* Ok(exp) is returned as Ok(state, <<>>, Some(exp))                       *)
expr_to_pure_exp(st, e) ==
    LET lowered(r) ==
            IF r.fail # "ok" THEN r
            ELSE IF Len(r.stms) = 0 THEN r
            ELSE Err(r.state, "expected pure mathematical expression")
    IN lowered(expr_to_stm_or_error(st, e))

(* vec_map_result(es, |e| expr_to_pure_exp(ctx, state, e))                 *)
pure_exps(st, es, acc) ==
    IF es = <<>> THEN [fail |-> "ok", msg |-> "", state |-> st, exps |-> acc]
    ELSE LET lowered(r) ==
                IF r.fail # "ok"
                THEN [fail |-> r.fail, msg |-> r.msg, state |-> r.state, exps |-> <<>>]
                ELSE pure_exps(r.state, Tail(es), Append(acc, r.rv.e))
         IN lowered(expr_to_pure_exp(st, Head(es)))

(* a bounds check that is emitted in spec view as well                     *)
arith_check_in_spec_view(st, e, op, bin, e2) ==
    IF op.k # "Arith" THEN <<>>
    ELSE IF ctx_inferred_modes[op.mode] = "Spec" THEN <<>>
    ELSE IF e.typ.t = "Int" /\ e.typ.range.k \in {"U", "I"}
    THEN <<MkStm(e.span, SAssert(
            Some(air_error("possible arithmetic underflow/overflow", e.span)),
            MkExp(e.span, TBool, XUnaryOpr(OprHasType(e.typ), bin))))>>
    ELSE <<>>

(* a bounds check that treats division and modulus like addition           *)
arith_check_range_only(st, e, op, bin, e2) ==
    IF op.k # "Arith" THEN <<>>
    ELSE IF st.view_as_spec THEN <<>>
    ELSE IF ctx_inferred_modes[op.mode] = "Spec" THEN <<>>
    ELSE IF e.typ.t = "Int" /\ e.typ.range.k \in {"U", "I"}
    THEN <<MkStm(e.span, SAssert(
            Some(air_error("possible arithmetic underflow/overflow", e.span)),
            MkExp(e.span, TBool, XUnaryOpr(OprHasType(e.typ), bin))))>>
    ELSE <<>>

(* the bounds check of a Binary: the statements to append (none or one)    *)
arith_check(st, e, op, bin, e2) ==
    IF op.k # "Arith" THEN <<>>
    ELSE IF st.view_as_spec THEN <<>>
    ELSE IF ctx_inferred_modes[op.mode] = "Spec" THEN <<>>
    ELSE IF e.typ.t = "Int" /\ e.typ.range.k \in {"U", "I"}
    THEN LET has_type == MkExp(e.span, TBool, XUnaryOpr(OprHasType(e.typ), bin))
             ne == MkExp(e.span, TBool,
                         XBinary(OpNe, e2, MkExp(e2.span, e2.typ, XConst(CNat("0")))))
         IN CASE op.arith \in {"Add", "Sub", "Mul"} ->
                   <<MkStm(e.span, SAssert(
                        Some(air_error("possible arithmetic underflow/overflow", e.span)),
                        has_type))>>
              [] op.arith \in {"EuclideanDiv", "EuclideanMod"} ->
                   <<MkStm(e.span, SAssert(
                        Some(air_error("possible division by zero", e.span)), ne))>>
    ELSE <<>>

(* a table that lets Or proceed to its right operand on true, like And     *)
short_circuit_or_like_and(op) ==
    CASE op.k = "And" -> Some(<<TRUE, FALSE>>)
      [] op.k = "Implies" -> Some(<<TRUE, TRUE>>)
      [] op.k = "Or" -> Some(<<TRUE, TRUE>>)
      [] OTHER -> None

short_circuit(op) ==
    CASE op.k = "And" -> Some(<<TRUE, FALSE>>)
      [] op.k = "Implies" -> Some(<<TRUE, TRUE>>)
      [] op.k = "Or" -> Some(<<FALSE, TRUE>>)
      [] OTHER -> None

expr_to_stm_opt_Binary(st, e) ==
    LET sc == short_circuit(e.x.op)
        with_bin(r1, r2, v2, bin) ==
            Ok(r2.state,
               (r1.stms \o r2.stms) \o arith_check(r2.state, e, e.x.op, bin, v2),
               RvSome(bin))
        with_if(i) == Ok(i.state, i.stms, i.rv)
        with_rhs(r1, r2) ==
            IF r2.fail # "ok" THEN r2
            ELSE IF sc # None /\ Len(r2.stms) > 0
            THEN LET b == RvSome(MkExp(e.span, TBool, XConst(CBool(sc[1][2]))))
                 IN IF sc[1][1]
                    THEN with_if(if_to_stm(r2.state, e, r1.stms, r1.rv,
                                           r2.stms, r2.rv, <<>>, b))
                    ELSE with_if(if_to_stm(r2.state, e, r1.stms, r1.rv,
                                           <<>>, b, r2.stms, r2.rv))
            ELSE IF to_value(r1.rv) = None THEN unwrap_or_return_never(r2.state, r1.stms)
            ELSE IF to_value(r2.rv) = None
            THEN unwrap_or_return_never(r2.state, r1.stms \o r2.stms)
            ELSE with_bin(r1, r2, to_value(r2.rv)[1],
                          mk_exp(e, XBinary(e.x.op, to_value(r1.rv)[1], to_value(r2.rv)[1])))
        with_lhs(r1) ==
            IF r1.fail # "ok" THEN r1
            ELSE with_rhs(r1, expr_to_stm_opt(r1.state, e.x.e2))
    IN with_lhs(expr_to_stm_opt(st, e.x.e1))

expr_to_stm_opt_If(st, e) ==
    LET with_if(i) == Ok(i.state, i.stms, i.rv)
        with_else(r0, r1, r2) ==
            IF r2.fail # "ok" THEN r2
            ELSE with_if(if_to_stm(r2.state, e, r0.stms, r0.rv, r1.stms, r1.rv,
                                   r2.stms, r2.rv))
        with_then(r0, r1) ==
            IF r1.fail # "ok" THEN r1
            ELSE IF e.x.e2 = None
            THEN with_if(if_to_stm(r1.state, e, r0.stms, r0.rv, r1.stms, r1.rv,
                                   <<>>, RvImplicitUnit(e.span)))
            ELSE with_else(r0, r1, expr_to_stm_opt(r1.state, e.x.e2[1]))
        with_cond(r0) ==
            IF r0.fail # "ok" THEN r0
            ELSE with_then(r0, expr_to_stm_opt(r0.state, e.x.e1))
    IN with_cond(expr_to_stm_opt(st, e.x.e0))

expr_to_stm_opt_Call(st, e) ==
    IF e.x.target.k = "FnSpec"
    THEN LET with_args(f, a) ==
                IF a.fail # "ok" THEN [f EXCEPT !.fail = a.fail, !.msg = a.msg,
                                                !.state = a.state, !.rv = RvNever]
                ELSE Ok(a.state, <<>>,
                        RvSome(mk_exp(e, XCallLambda(e.typ, f.rv.e, a.exps))))
             with_fun(f) ==
                IF f.fail # "ok" THEN f
                ELSE with_args(f, pure_exps(f.state, e.x.args, <<>>))
         IN with_fun(expr_to_pure_exp(st, e.x.target.e))
    ELSE
    LET pure_args(g) == [i \in 1..Len(g.call.args) |-> g.call.args[i][1]]
        with_dest(g, t, s) == Ok(s.state, Append(g.stms, s.stm), RvSome(t.temp_var))
        with_temp(g, t, d) ==
            with_dest(g, t, stm_call(d.state, e.span, g.call.fun, g.call.typs, g.call.args,
                                     Some(Dest(var_loc_exp(e.span, e.typ, d.id), TRUE))))
        without_dest(g, s) == Ok(s.state, Append(g.stms, s.stm), RvImplicitUnit(e.span))
        with_test(g, c, t) ==
            IF c.fail # "ok" THEN Err(g.state, c.msg)
            ELSE IF c.b
            THEN Ok(g.state, g.stms,
                    RvSome(mk_exp(e, XCall(g.call.fun, g.call.typs, pure_args(g)))))
            ELSE IF g.call.has_return
            THEN with_temp(g, t, declare_new_var(t.state, t.temp, e.typ, FALSE, FALSE))
            ELSE without_dest(g, stm_call(g.state, e.span, g.call.fun, g.call.typs,
                                          g.call.args, None))
        with_call(g) ==
            IF g.fail = "err" THEN Err(g.state, g.msg)
            ELSE IF g.fail = "panic" THEN Panic(g.state, g.msg)
            ELSE IF g.call.k = "None" THEN Panic(g.state, "Call")
            ELSE IF g.call.k = "Never" THEN Ok(g.state, g.stms, RvNever)
            ELSE with_test(g, function_can_be_exp(g.call.fun),
                           next_temp(g.state, e.span, e.typ))
    IN with_call(expr_get_call(st, e))

ctor_binders(st, binders, stms, args) ==
    IF binders = <<>> THEN [r |-> Ok(st, stms, RvNever), done |-> TRUE, args |-> args]
    ELSE LET binder == Head(binders)
             lowered(r) ==
                IF r.fail # "ok" THEN [r |-> r, done |-> FALSE, args |-> <<>>]
                ELSE IF to_value(r.rv) = None
                THEN [r |-> unwrap_or_return_never(r.state, stms \o r.stms),
                      done |-> FALSE, args |-> <<>>]
                ELSE ctor_binders(r.state, Tail(binders), stms \o r.stms,
                                  Append(args, Binder(binder.name, to_value(r.rv)[1])))
         IN lowered(expr_to_stm_opt(st, binder.a))

expr_to_stm_opt_Ctor(st, e) ==
    IF e.x.update # None THEN Panic(st, "assert update.is_none()")
    ELSE LET with_args(c) ==
                IF ~c.done THEN c.r
                ELSE Ok(c.r.state, c.r.stms,
                        RvSome(mk_exp(e, XCtor(e.x.path, e.x.variant, c.args))))
         IN with_args(ctor_binders(st, e.x.binders, <<>>, <<>>))

(* Loc, Unary and UnaryOpr: one operand, wrapped                            *)
expr_to_stm_opt_Unary(st, e) ==
    LET wrapped(r, v) ==
            Ok(r.state, r.stms,
               RvSome(mk_exp(e, CASE e.x.x = "Loc" -> XLoc(v)
                                  [] e.x.x = "Unary" -> XUnary(e.x.op, v)
                                  [] e.x.x = "UnaryOpr" -> XUnaryOpr(e.x.opr, v))))
        lowered(r) ==
            IF r.fail # "ok" THEN r
            ELSE IF to_value(r.rv) = None THEN unwrap_or_return_never(r.state, r.stms)
            ELSE wrapped(r, to_value(r.rv)[1])
    IN lowered(expr_to_stm_opt(st, e.x.e))

(* an Assign arm that hands every left-hand side to the call as its        *)
(* destination                                                             *)
lhs_always_simple(lhs_exp) == TRUE

(* the test of the Assign arm for a simple variable location               *)
lhs_is_var_loc(lhs_exp) == lhs_exp.x.x = "VarLoc"

expr_to_stm_opt_Assign(st, e) ==
    LET call_to_var(l, g, s) ==
            Ok(s.state, Append(l.stms \o g.stms, s.stm), RvImplicitUnit(e.span))
        call_to_temp(l, g, lhs_exp, t, s) ==
            Ok(s.state,
               (l.stms \o g.stms)
                  \o <<s.stm, MkStm(lhs_exp.span, SAssign(Dest(lhs_exp, FALSE), t.temp_var))>>,
               RvImplicitUnit(e.span))
        call_temp(l, g, lhs_exp, t, d) ==
            call_to_temp(l, g, lhs_exp, t,
                stm_call(d.state, e.span, g.call.fun, g.call.typs, g.call.args,
                         Some(Dest(var_loc_exp(lhs_exp.span, e.x.rhs.typ, d.id), TRUE))))
        call_dest(l, g, lhs_exp, t) ==
            IF lhs_is_var_loc(lhs_exp)
            THEN call_to_var(l, g,
                    stm_call(g.state, e.span, g.call.fun, g.call.typs, g.call.args,
                             Some(Dest(lhs_exp, e.x.init_not_mut))))
            ELSE IF e.x.init_not_mut
            THEN Panic(g.state, "init_not_mut unexpected for complex call dest")
            ELSE call_temp(l, g, lhs_exp, t,
                    declare_new_var(t.state, t.temp, e.x.rhs.typ, FALSE, FALSE))
        value_temp(l, r2, lhs_exp, e2, t, d) ==
            Ok(d.state,
               (l.stms \o r2.stms)
                  \o <<init_var(e.span, d.id, e2),
                       MkStm(e.span, SAssign(Dest(lhs_exp, e.x.init_not_mut), t.temp_var))>>,
               RvImplicitUnit(e.span))
        value_dest(l, r2, lhs_exp, e2, t) ==
            IF lhs_exp.x.x = "VarLoc" \/ is_small_exp(e2)
            THEN Ok(r2.state,
                    Append(l.stms \o r2.stms,
                           MkStm(e.span, SAssign(Dest(lhs_exp, e.x.init_not_mut), e2))),
                    RvImplicitUnit(e.span))
            ELSE value_temp(l, r2, lhs_exp, e2, t,
                    declare_new_var(t.state, t.temp, e2.typ, FALSE, FALSE))
        value(l, r2, lhs_exp) ==
            IF r2.fail # "ok" THEN r2
            ELSE IF to_value(r2.rv) = None
            THEN unwrap_or_return_never(r2.state, r2.stms)
            ELSE value_dest(l, r2, lhs_exp, to_value(r2.rv)[1],
                    next_temp(r2.state, to_value(r2.rv)[1].span, to_value(r2.rv)[1].typ))
        with_rhs(l, g, lhs_exp) ==
            IF g.fail = "err" THEN Err(g.state, g.msg)
            ELSE IF g.fail = "panic" THEN Panic(g.state, g.msg)
            ELSE IF g.call.k = "Never" THEN Ok(g.state, l.stms \o g.stms, RvNever)
            ELSE IF g.call.k = "Call"
            THEN call_dest(l, g, lhs_exp, next_temp(g.state, lhs_exp.span, e.x.rhs.typ))
            ELSE value(l, expr_to_stm_opt(l.state, e.x.rhs), lhs_exp)
        with_lhs(l) ==
            IF l.fail # "ok" THEN l
            ELSE IF l.rv.k = "Never"
            THEN Panic(l.state, "ReturnValue::Never unexpected here")
            ELSE with_rhs(l, expr_must_be_call_stm(l.state, e.x.rhs), to_value(l.rv)[1])
    IN with_lhs(expr_to_stm_opt(st, e.x.lhs))

MkBnd(span, x) == [span |-> span, x |-> x]
BndLet(binders) == [x |-> "Let", binders |-> binders]
BndQuant(q, binders, trigs) == [x |-> "Quant", quant |-> q, binders |-> binders, trigs |-> trigs]
BndLambda(params) == [x |-> "Lambda", binders |-> params]
BndChoose(params, trigs, cond) ==
    [x |-> "Choose", binders |-> params, trigs |-> trigs, cond |-> cond]

suffix_typ_param_id(x) == [typ_id |-> x]

binder_names(binders) == [i \in 1..Len(binders) |-> binders[i].name]

expr_to_stm_opt_Quant(st, e) ==
    LET vs == [i \in 1..Len(e.x.binders) |->
                 IF e.x.binders[i].a.t = "TypeId"
                 THEN suffix_typ_param_id(e.x.binders[i].name)
                 ELSE e.x.binders[i].name]
        with_body(p) ==
            IF p.fail # "ok" THEN p
            ELSE Ok(pop_scope(p.state), <<>>,
                    RvSome(mk_exp(e, XBind(
                        MkBnd(e.x.body.span,
                              BndQuant(e.x.quant, e.x.binders,
                                       build_triggers(e.span, vs, p.rv.e))),
                        p.rv.e))))
    IN with_body(expr_to_pure_exp(declare_binders(push_scope(st), e.x.binders), e.x.body))

is_boxed_typ(ty) == ty.t \in {"TypParam", "Boxed"}

(* the let-bindings that unbox the parameters of a closure                 *)
RECURSIVE closure_let_box_binds(_, _)
closure_let_box_binds(e, params) ==
    IF params = <<>> THEN <<>>
    ELSE LET p == Head(params)
             var == MkExp(e.span, TBoxed(p.a), XVar(<<p.name, None>>))
             unbox == MkExp(e.span, p.a, XUnaryOpr(OprUnbox(p.a), var))
         IN IF is_boxed_typ(p.a) THEN closure_let_box_binds(e, Tail(params))
            ELSE <<Binder(p.name, unbox)>> \o closure_let_box_binds(e, Tail(params))

expr_to_stm_opt_Closure(st, e) ==
    LET body == e.x.body
        boxed_params == [i \in 1..Len(e.x.params) |->
                            IF is_boxed_typ(e.x.params[i].a) THEN e.x.params[i]
                            ELSE Binder(e.x.params[i].name, TBoxed(e.x.params[i].a))]
        let_box_binds == closure_let_box_binds(e, e.x.params)
        bnd == MkBnd(body.span, BndLambda(boxed_params))
        exp1(p) == IF is_boxed_typ(body.typ) THEN p.rv.e
                   ELSE MkExp(body.span, TBoxed(body.typ),
                              XUnaryOpr(OprBox(body.typ), p.rv.e))
        exp2(x) == IF Len(let_box_binds) # 0
                   THEN MkExp(body.span, x.typ,
                              XBind(MkBnd(body.span, BndLet(let_box_binds)), x))
                   ELSE x
        with_body(p) ==
            IF p.fail # "ok" THEN p
            ELSE Ok(pop_scope(p.state), <<>>,
                    RvSome(mk_exp(e, XBind(bnd, exp2(exp1(p))))))
    IN with_body(expr_to_pure_exp(declare_binders(push_scope(st), e.x.params), e.x.body))

expr_to_stm_opt_Choose(st, e) ==
    LET bnd(c) == MkBnd(e.x.body.span,
                        BndChoose(e.x.params,
                                  build_triggers(e.span, binder_names(e.x.params), c.rv.e),
                                  c.rv.e))
        with_body(c, b) ==
            IF b.fail # "ok" THEN b
            ELSE Ok(pop_scope(b.state), <<>>, RvSome(mk_exp(e, XBind(bnd(c), b.rv.e))))
        with_cond(c) ==
            IF c.fail # "ok" THEN c
            ELSE with_body(c, expr_to_pure_exp(c.state, e.x.body))
    IN with_cond(expr_to_pure_exp(declare_binders(push_scope(st), e.x.params), e.x.cond))

(* the loop of Forall over vars: declares each and assumes its type        *)
RECURSIVE forall_vars(_, _, _, _)
forall_vars(st, e, vs, body) ==
    IF vs = <<>> THEN [state |-> st, body |-> body]
    ELSE LET var == Head(vs)
             has_typ(d) ==
                MkExp(e.span, TBool,
                      XUnaryOpr(OprHasType(var.a), MkExp(e.span, TBool, XVar(d.id))))
             declared(d) ==
                forall_vars(d.state, e, Tail(vs),
                            Append(body, MkStm(e.x.require.span, SAssume(has_typ(d)))))
         IN declared(declare_new_var(st, var.name, var.a, FALSE, TRUE))

(* a body in which the conclusion is asserted before the proof             *)
forall_body_assert_first(e, assumes, require_exp, proof_stms, ensure_exp) ==
    (Append(assumes, MkStm(e.x.require.span, SAssume(require_exp)))
        \o <<MkStm(e.x.ensure.span, SAssert(None, ensure_exp))>>)
        \o proof_stms

(* the statements of the dead end: body.push(assume),                      *)
(* body.append(&mut proof_stms), body.push(assert)                         *)
forall_body(e, assumes, require_exp, proof_stms, ensure_exp) ==
    (Append(assumes, MkStm(e.x.require.span, SAssume(require_exp))) \o proof_stms)
        \o <<MkStm(e.x.ensure.span, SAssert(None, ensure_exp))>>

expr_to_stm_opt_Forall(st, e) ==
    LET imply == MkExpr(e.x.ensure.span, TBool,
                        EBinary(OpImplies, e.x.require, e.x.ensure))
        forall == MkExpr(e.x.ensure.span, TBool, EQuant("Forall", e.x.vars, imply))
        body(v, pr, rq, en) == forall_body(e, v.body, rq.rv.e, pr.stms, en.rv.e)
        deadend(v, pr, rq, en) ==
            MkStm(e.span, SDeadEnd(MkStm(e.span, SBlock(body(v, pr, rq, en)))))
        with_forall(v, pr, rq, en, fa) ==
            IF fa.fail # "ok" THEN fa
            ELSE Ok(fa.state,
                    <<deadend(v, pr, rq, en), MkStm(e.x.ensure.span, SAssume(fa.rv.e))>>,
                    RvImplicitUnit(e.span))
        with_ensure(v, pr, rq, en) ==
            IF en.fail # "ok" THEN en
            ELSE with_forall(v, pr, rq, en, expr_to_pure_exp(pop_scope(en.state), forall))
        with_require(v, pr, rq) ==
            IF rq.fail # "ok" THEN rq
            ELSE with_ensure(v, pr, rq, expr_to_pure_exp(rq.state, e.x.ensure))
        with_proof(v, pr) ==
            IF pr.fail # "ok" THEN pr
            ELSE IF pr.rv.k = "Some"
            THEN Err(pr.state, "forall/assert-by cannot end with an expression")
            ELSE with_require(v, pr, expr_to_pure_exp(pr.state, e.x.require))
        with_vars(v) == with_proof(v, expr_to_stm_opt(v.state, e.x.proof))
    IN with_vars(forall_vars(push_scope(st), e, e.x.vars, <<>>))

expr_to_stm_opt_AssertBV(st, e) ==
    LET lowered(p) ==
            IF p.fail # "ok" THEN p
            ELSE Ok(p.state, <<MkStm(e.x.e.span, SAssertBV(p.rv.e))>>,
                    RvImplicitUnit(p.rv.e.span))
    IN lowered(expr_to_pure_exp(st, e.x.e))

expr_to_stm_opt_While(st, e) ==
    LET while_stm(r0, r1, iv) ==
            MkStm(e.span, SWhile(r0.stms, r0.rv.e,
                                 stms_to_one_stm(e.x.body.span, r1.stms), iv.exps))
        with_invs(r0, r1, iv) ==
            IF iv.fail = "err" THEN Err(iv.state, iv.msg)
            ELSE IF iv.fail = "panic" THEN Panic(iv.state, iv.msg)
            ELSE IF can_control_flow_reach_after_loop(e)
            THEN Ok(iv.state, <<while_stm(r0, r1, iv)>>, RvImplicitUnit(e.span))
            ELSE Ok(iv.state, <<while_stm(r0, r1, iv), assume_false(e.span)>>, RvNever)
        with_body(r0, r1) ==
            IF r1.fail # "ok" THEN r1
            ELSE IF ~check_unit_or_never(r1.rv)
            THEN Err(r1.state, "expressions with no effect are not supported")
            ELSE with_invs(r0, r1, pure_exps(r1.state, e.x.invs, <<>>))
        with_cond(r0) ==
            IF r0.fail # "ok" THEN r0
            ELSE IF r0.rv.k = "ImplicitUnit"
            THEN Panic(r0.state, "while loop condition doesn't return a bool expression")
            ELSE IF r0.rv.k = "Never" THEN Ok(r0.state, r0.stms, RvNever)
            ELSE with_body(r0, expr_to_stm_opt(r0.state, e.x.body))
    IN with_cond(expr_to_stm_opt(st, e.x.cond))

(* an invariant block that yields ImplicitUnit whatever its body yields    *)
open_invariant_result_unit(e, st2, stms, body_e) == Ok(st2, stms, RvImplicitUnit(e.span))

(* let _body_e = unwrap_or_return_never!(body_e, stms0); Ok((stms0, ..))   *)
open_invariant_result(e, st2, stms, body_e) ==
    IF to_value(body_e) = None THEN unwrap_or_return_never(st2, stms)
    ELSE Ok(st2, stms, RvImplicitUnit(e.span))

expr_to_stm_opt_OpenInvariant(st, e) ==
    LET stms1(r0, t, d, b, r1) ==
            Append(Append(r0.stms,
                          init_var(to_value(r0.rv)[1].span, d.id, to_value(r0.rv)[1])),
                   MkStm(e.span,
                         SOpenInvariant(t.temp_var, b.id, e.x.binder.a,
                                        stms_to_one_stm(e.span, r1.stms), e.x.atomicity)))
        with_body(r0, t, d, b, r1, st2) ==
            IF r1.fail # "ok" THEN r1
            ELSE IF ~check_unit_or_never(r1.rv)
            THEN Err(st2, "expressions with no effect are not supported")
            ELSE open_invariant_result(e, st2, stms1(r0, t, d, b, r1), r1.rv)
        lowered_body(r0, t, d, b, r1) == with_body(r0, t, d, b, r1, pop_scope(r1.state))
        with_binder(r0, t, d, b) ==
            lowered_body(r0, t, d, b, expr_to_stm_opt(b.state, e.x.body))
        with_decl(r0, t, d) ==
            with_binder(r0, t, d,
                declare_new_var(push_scope(d.state), e.x.binder.name, e.x.binder.a,
                                TRUE, TRUE))
        with_temp(r0, t) ==
            with_decl(r0, t, declare_new_var(t.state, t.temp, e.x.inv.typ, FALSE, FALSE))
        with_inv(r0) ==
            IF r0.fail # "ok" THEN r0
            ELSE IF to_value(r0.rv) = None THEN unwrap_or_return_never(r0.state, r0.stms)
            ELSE with_temp(r0, next_temp(r0.state, to_value(r0.rv)[1].span, e.x.inv.typ))
    IN with_inv(expr_to_stm_opt(st, e.x.inv))

(* the loop of Return over the postconditions                              *)
(* a loop over the postconditions from the last to the first               *)
return_asserts_reversed(e, enss) ==
    [i \in 1..Len(enss) |->
        MkStm(e.span, SAssert(
            Some(air_error_with_labels("postcondition not satisfied", e.span,
                                       "at this exit", enss[Len(enss) + 1 - i].span,
                                       "failed this postcondition")),
            enss[Len(enss) + 1 - i]))]

return_asserts(e, enss) ==
    [i \in 1..Len(enss) |->
        MkStm(e.span, SAssert(
            Some(air_error_with_labels("postcondition not satisfied", e.span,
                                       "at this exit", enss[i].span,
                                       "failed this postcondition")),
            enss[i]))]

expr_to_stm_opt_Return(st, e) ==
    IF st.ret_post = None THEN Err(st, "return expression not allowed here")
    ELSE
    LET ret_dest == st.ret_post[1].dest
        enss == st.ret_post[1].enss
        tail == Append(return_asserts(e, enss), assume_false(e.span))
    IN CASE ret_dest = None /\ e.x.ret = None -> Ok(st, tail, RvNever)
         [] ret_dest = None /\ e.x.ret # None -> Err(st, "return value not allowed here")
         [] ret_dest # None /\ e.x.ret = None ->
              Panic(st, "internal error: return value expected")
         [] ret_dest # None /\ e.x.ret # None ->
              LET lowered(r) ==
                     IF r.fail # "ok" THEN r
                     ELSE IF to_value(r.rv) = None
                     THEN unwrap_or_return_never(r.state, r.stms)
                     ELSE Ok(r.state,
                             Append(r.stms,
                                    init_var(e.span, ret_dest[1], to_value(r.rv)[1]))
                                \o tail,
                             RvNever)
              IN lowered(expr_to_stm_opt(st, e.x.ret[1]))

(* Result<(Vec<Stm>, ReturnValue, Option<(LocalDecl, Option<Bnd>)>), _>    *)
StmtOk(st, stms, rv, decl_bnd) ==
    [fail |-> "ok", msg |-> "", state |-> st, stms |-> stms, rv |-> rv,
     decl_bnd |-> decl_bnd]
StmtFail(fail, st, msg) ==
    [fail |-> fail, msg |-> msg, state |-> st, stms |-> <<>>, rv |-> RvNever,
     decl_bnd |-> None]

stmt_to_stm(st, stmt) ==
    IF stmt.x.x = "Expr"
    THEN LET lowered(r) ==
                IF r.fail # "ok" THEN StmtFail(r.fail, r.state, r.msg)
                ELSE StmtOk(r.state, r.stms, r.rv, None)
         IN lowered(expr_to_stm_opt(st, stmt.x.e))
    ELSE IF stmt.x.pattern.x.x # "Var"
    THEN StmtFail("panic", st,
                  "internal error: Decl should have been simplified by ast_simplify")
    ELSE
    LET pattern == stmt.x.pattern
        name == pattern.x.name
        typ == pattern.typ
        init == stmt.x.init
        ret == RvImplicitUnit(stmt.span)
        decl(a) == LocalDeclX(a.id, typ, pattern.x.mutable)
        with_call(a, g, s) ==
            StmtOk(s.state, Append(g.stms, s.stm), ret,
                   Some([decl |-> decl(a), bnd |-> None]))
        with_value(a, r, exp) ==
            StmtOk(r.state, Append(r.stms, init_var(stmt.span, decl(a).ident, exp)), ret,
                   Some([decl |-> decl(a),
                         bnd |-> IF Len(r.stms) = 0
                                 THEN Some(MkBnd(stmt.span, BndLet(<<Binder(name, exp)>>)))
                                 ELSE None]))
        with_init(a, r) ==
            IF r.fail # "ok" THEN StmtFail(r.fail, r.state, r.msg)
            ELSE IF to_value(r.rv) = None THEN StmtOk(r.state, r.stms, RvNever, None)
            ELSE with_value(a, r, to_value(r.rv)[1])
        with_rhs(a, g) ==
            IF g.fail # "ok" THEN StmtFail(g.fail, g.state, g.msg)
            ELSE IF g.call.k = "Never" THEN StmtOk(g.state, g.stms, RvNever, None)
            ELSE IF g.call.k = "Call"
            THEN with_call(a, g,
                    stm_call(g.state, init[1].span, g.call.fun, g.call.typs, g.call.args,
                             Some(Dest(var_loc_exp(pattern.span, typ, decl(a).ident), TRUE))))
            ELSE IF init = None
            THEN StmtOk(a.state, <<>>, ret, Some([decl |-> decl(a), bnd |-> None]))
            ELSE with_init(a, expr_to_stm_opt(a.state, init[1]))
        with_ident(a) ==
            with_rhs(a, IF init # None THEN expr_must_be_call_stm(a.state, init[1])
                        ELSE GotCall(a.state, <<>>, [k |-> "None"]))
    IN with_ident(alloc_unique_var(st, name))

(* the loop of Block over its statements; acc holds the loop's variables   *)
block_stmts(acc, stmts) ==
    IF stmts = <<>> THEN acc
    ELSE
    LET is_decl(s) == s.decl_bnd # None
        acc1(s) ==
            [fail |-> "ok", msg |-> "",
             state |-> IF is_decl(s)
                       THEN insert_unique_var(push_scope(s.state), s.decl_bnd[1].decl.ident)
                       ELSE s.state,
             stms |-> acc.stms \o s.stms,
             local_decls |-> IF is_decl(s) THEN Append(acc.local_decls, s.decl_bnd[1].decl)
                             ELSE acc.local_decls,
             binds |-> IF is_decl(s) /\ s.decl_bnd[1].bnd # None
                       THEN Append(acc.binds, s.decl_bnd[1].bnd[1])
                       ELSE acc.binds,
             is_pure_exp |-> acc.is_pure_exp /\ is_decl(s) /\ s.decl_bnd[1].bnd # None
                             /\ s.rv.k # "Never",
             never_return |-> s.rv.k = "Never"]
        checked(s, next) ==
            IF ~check_unit_or_never(s.rv)
            THEN [next EXCEPT !.fail = "err",
                              !.msg = "expressions with no effect are not supported",
                              !.stms = acc.stms]
            ELSE IF s.rv.k = "Never" THEN next
            ELSE block_stmts(next, Tail(stmts))
        lowered(s) ==
            IF s.fail # "ok"
            THEN [acc EXCEPT !.fail = s.fail, !.msg = s.msg, !.state = s.state]
            ELSE checked(s, acc1(s))
    IN lowered(stmt_to_stm(acc.state, Head(stmts)))

(* a loop that pops one scope fewer than were pushed                      *)
pop_scopes_one_fewer(st, n) ==
    [st EXCEPT !.rename_map = SubSeq(@, 1, Len(@) - (IF n > 0 THEN n - 1 ELSE 0))]

RECURSIVE pop_scopes(_, _)
pop_scopes(st, n) == IF n = 0 THEN st ELSE pop_scopes(pop_scope(st), n - 1)

(* the fold left out: the tail value is returned as it is                  *)
no_fold(e, binds, exp) == exp

(* binds.iter().rev(): the last binding is the innermost                   *)
RECURSIVE fold_binds(_, _, _)
fold_binds(e, binds, exp) ==
    IF binds = <<>> THEN exp
    ELSE fold_binds(e, SubSeq(binds, 1, Len(binds) - 1),
                    MkExp(e.span, exp.typ, XBind(binds[Len(binds)], exp)))

decl_idents(decls) == {decls[i].ident : i \in 1..Len(decls)}

expr_to_stm_opt_Block(st, e) ==
    LET popped(b, r, st1) ==
            IF r.rv.k = "Some" /\ b.is_pure_exp /\ Len(r.stms) = 0
            THEN Ok([st1 EXCEPT !.dont_rename =
                                    st1.dont_rename \cup decl_idents(b.local_decls)],
                    <<>>, RvSome(fold_binds(e, b.binds, r.rv.e)))
            ELSE Ok([st1 EXCEPT !.local_decls = st1.local_decls \o b.local_decls],
                    <<MkStm(e.span, SBlock(b.stms \o r.stms))>>, r.rv)
        with_tail(b, r) ==
            IF r.fail # "ok" THEN r
            ELSE popped(b, r, pop_scopes(r.state, Len(b.local_decls)))
        with_stmts(b) ==
            IF b.fail = "err" THEN Err(b.state, b.msg)
            ELSE IF b.fail = "panic" THEN Panic(b.state, b.msg)
            ELSE with_tail(b, IF ~b.never_return /\ e.x.body # None
                              THEN expr_to_stm_opt(b.state, e.x.body[1])
                              ELSE Ok(b.state, <<>>, IF b.never_return THEN RvNever
                                                     ELSE RvImplicitUnit(e.span)))
    IN with_stmts(block_stmts([fail |-> "ok", msg |-> "", state |-> st, stms |-> <<>>,
                               local_decls |-> <<>>, binds |-> <<>>, is_pure_exp |-> TRUE,
                               never_return |-> FALSE], e.x.stmts))

expr_to_stm_opt_Var(st, e) ==
    IF ~has_var(st, e.x.name)
    THEN Panic(st, "internal error: variable not in rename_map")
    ELSE LET id == get_var_unique_id(st, e.x.name)
         IN CASE e.x.x = "Var" -> Ok(st, <<>>, RvSome(mk_exp(e, XVar(id))))
              [] e.x.x = "VarLoc" -> Ok(st, <<>>, RvSome(mk_exp(e, XVarLoc(id))))

(* the arm without the test for a shadowing declaration                    *)
VarAt_unchecked(st, e) ==
    IF ~has_var(st, e.x.name)
    THEN Panic(st, "internal error: variable not in rename_map")
    ELSE Ok(st, <<>>, RvSome(mk_exp(e, XVarAt(get_var_unique_id(st, e.x.name)))))

expr_to_stm_opt_VarAt(st, e) ==
    IF has_var(st, e.x.name) /\ scope_map_scope_of_key(st.rename_map, e.x.name) # 0
    THEN Err(st, "the parameter is shadowed here")
    ELSE IF ~has_var(st, e.x.name)
    THEN Panic(st, "internal error: variable not in rename_map")
    ELSE Ok(st, <<>>, RvSome(mk_exp(e, XVarAt(get_var_unique_id(st, e.x.name)))))

expr_to_stm_opt_arm(st, e) ==
    CASE e.x.x = "Const" -> Ok(st, <<>>, RvSome(mk_exp(e, XConst(e.x.c))))
      [] e.x.x \in {"Var", "VarLoc"} -> expr_to_stm_opt_Var(st, e)
      [] e.x.x = "VarAt" -> expr_to_stm_opt_VarAt(st, e)
      [] e.x.x = "ConstVar" -> Panic(st, "ConstVar should already be removed")
      [] e.x.x \in {"Loc", "Unary", "UnaryOpr"} -> expr_to_stm_opt_Unary(st, e)
      [] e.x.x = "Assign" -> expr_to_stm_opt_Assign(st, e)
      [] e.x.x = "Call" -> expr_to_stm_opt_Call(st, e)
      [] e.x.x = "Tuple" ->
            Panic(st, "internal error: Tuple should have been simplified by ast_simplify")
      [] e.x.x = "Ctor" -> expr_to_stm_opt_Ctor(st, e)
      [] e.x.x = "Binary" -> expr_to_stm_opt_Binary(st, e)
      [] e.x.x = "Quant" -> expr_to_stm_opt_Quant(st, e)
      [] e.x.x = "Closure" -> expr_to_stm_opt_Closure(st, e)
      [] e.x.x = "Choose" -> expr_to_stm_opt_Choose(st, e)
      [] e.x.x = "Fuel" ->
            Ok(st, <<MkStm(e.span, SFuel(e.x.fun, e.x.fuel))>>, RvImplicitUnit(e.span))
      [] e.x.x = "Header" -> Err(st, "header expression not allowed here")
      [] e.x.x = "Admit" -> Ok(st, <<assume_false(e.span)>>, RvImplicitUnit(e.span))
      [] e.x.x = "Forall" -> expr_to_stm_opt_Forall(st, e)
      [] e.x.x = "AssertBV" -> expr_to_stm_opt_AssertBV(st, e)
      [] e.x.x = "If" -> expr_to_stm_opt_If(st, e)
      [] e.x.x = "Match" ->
            Panic(st, "internal error: Match should have been simplified by ast_simplify")
      [] e.x.x = "While" -> expr_to_stm_opt_While(st, e)
      [] e.x.x = "OpenInvariant" -> expr_to_stm_opt_OpenInvariant(st, e)
      [] e.x.x = "Return" -> expr_to_stm_opt_Return(st, e)
      [] e.x.x = "Block" -> expr_to_stm_opt_Block(st, e)

(* A panic raised inside a State method or an assert! aborts the call.     *)
expr_to_stm_opt(st, e) ==
    LET checked(r) ==
            IF r.fail = "ok" /\ r.state.aborted # "" THEN Panic(r.state, r.state.aborted)
            ELSE r
    IN checked(expr_to_stm_opt_arm(st, e))

---------------------------------------------------------------------------
(* The inputs: typed VIR trees over the parameters a, b : u8 and c : bool  *)
(* and the local x.  Each generator takes the span (path) of its root.     *)

MaxArgs == 2
MaxStmts == 2

Id(n) == [n |-> n]
TU8 == TInt(RU(8))
TI32 == TInt(RI(32))
TMath == TInt(RInt)
TUSize == TInt(RUSize)
TNever == [t |-> "Never"]

Params == <<Binder(Id("a"), TU8), Binder(Id("b"), TU8), Binder(Id("c"), TBool)>>

RetDest == <<Id("ret"), Some(0)>>
Posts ==
    <<MkExp(<<90>>, TBool, XVar(<<Id("c"), Some(0)>>)),
      MkExp(<<91>>, TBool, XUnary(UNot, MkExp(<<91>>, TBool, XVar(<<Id("c"), Some(0)>>))))>>

(* (view_as_spec, ret_post) as the caller sets them                        *)
Setups ==
    {<<FALSE, Some([dest |-> Some(RetDest), enss |-> Posts])>>,
     <<FALSE, Some([dest |-> None, enss |-> Posts])>>,
     <<FALSE, None>>,
     <<TRUE, None>>}

VarA(sp) == MkExpr(sp, TU8, EVar(Id("a")))
VarB(sp) == MkExpr(sp, TU8, EVar(Id("b")))
VarC(sp) == MkExpr(sp, TBool, EVar(Id("c")))
One(sp) == MkExpr(sp, TU8, EConst(CNat("1")))
True(sp) == MkExpr(sp, TBool, EConst(CBool(TRUE)))
CallOf(sp, f, ty, args) == MkExpr(sp, ty, ECallStatic(f, <<>>, args))
SumAB(sp, ty) ==
    MkExpr(sp, ty, EBinary(OpArith("Add", "mE"), MkExpr(sp \o <<1>>, ty, EVar(Id("a"))),
                           MkExpr(sp \o <<2>>, ty, EVar(Id("b")))))
Ret(sp) == MkExpr(sp, TNever, EReturn(Some(VarA(sp \o <<1>>))))
RetUnit(sp) == MkExpr(sp, TNever, EReturn(None))
EmptyBlock(sp) == MkExpr(sp, lowered_unit_typ, EBlock(<<>>, None))
Forever(sp) == MkExpr(sp, TNever, EWhile(True(sp \o <<1>>), EmptyBlock(sp \o <<2>>), <<>>))
DeclX(sp, mutable, init) ==
    MkStmt(sp, StmtDecl(PatternVar(sp \o <<0>>, init.typ, Id("x"), mutable), Some(init)))
LetBlock(sp, ty) ==
    MkExpr(sp, ty, EBlock(<<DeclX(sp \o <<1>>, FALSE, MkExpr(sp \o <<1, 1>>, ty, EVar(Id("a"))))>>,
                          Some(MkExpr(sp \o <<2>>, ty, EVar(Id("x"))))))

(* value operands of type ty: pure, with statements, never, in error       *)
Operands(sp, ty) ==
    {MkExpr(sp, ty, EVar(Id("a"))),
     MkExpr(sp, ty, EConst(CNat("1"))),
     CallOf(sp, "fe", ty, <<VarA(sp \o <<1>>)>>),
     CallOf(sp, "fs", ty, <<VarA(sp \o <<1>>)>>),
     SumAB(sp, ty),
     LetBlock(sp, ty),
     Ret(sp),
     Forever(sp),
     MkExpr(sp, ty, EHeader)}

BoolOperands(sp) ==
    {VarC(sp), True(sp),
     CallOf(sp, "fe", TBool, <<VarC(sp \o <<1>>)>>),
     CallOf(sp, "fs", TBool, <<>>),
     Ret(sp),
     Forever(sp),
     MkExpr(sp, TBool, EHeader)}

(* unit-typed expressions: statements with no value                        *)
Units(sp) ==
    {CallOf(sp, "fv", lowered_unit_typ, <<>>),
     CallOf(sp, "fpv", lowered_unit_typ, <<SumAB(sp \o <<1>>, TU8)>>),
     MkExpr(sp, lowered_unit_typ, EAdmit),
     MkExpr(sp, lowered_unit_typ,
            EAssign(FALSE, MkExpr(sp \o <<1>>, TU8, EVarLoc(Id("a"))), One(sp \o <<2>>))),
     EmptyBlock(sp)}

Small(sp) == Operands(sp, TU8) \cup Units(sp)

ArithOps == {"Add", "Sub", "Mul", "EuclideanDiv", "EuclideanMod"}
ArithTyps == {TU8, TI32, TMath, TUSize}

Binaries(sp) ==
    {MkExpr(sp, ty, EBinary(OpArith(op, m), e1, e2)) :
        op \in ArithOps, m \in DOMAIN ctx_inferred_modes, ty \in {TU8, TMath},
        e1 \in Operands(sp \o <<1>>, TU8), e2 \in Operands(sp \o <<2>>, TU8)}
    \cup
    {MkExpr(sp, ty, EBinary(OpArith(op, "mP"), VarA(sp \o <<1>>), VarB(sp \o <<2>>))) :
        op \in ArithOps, ty \in ArithTyps}
    \cup
    {MkExpr(sp, TBool, EBinary(op, e1, e2)) :
        op \in {OpAnd, OpOr, OpImplies, OpEq},
        e1 \in BoolOperands(sp \o <<1>>), e2 \in BoolOperands(sp \o <<2>>)}

(* the type of a conditional: that of a branch that returns                *)
IfTyp(e1, e2) == IF e1.typ = TNever THEN e2.typ ELSE e1.typ

Ifs(sp) ==
    {MkExpr(sp, IfTyp(p[1], p[2]), EIf(e0, p[1], Some(p[2]))) :
        e0 \in BoolOperands(sp \o <<1>>),
        p \in {q \in Small(sp \o <<2>>) \X Small(sp \o <<3>>) :
                 q[2].typ = q[1].typ \/ TNever \in {q[1].typ, q[2].typ}}}
    \cup
    {MkExpr(sp, lowered_unit_typ, EIf(e0, e1, None)) :
        e0 \in BoolOperands(sp \o <<1>>), e1 \in Units(sp \o <<2>>) \cup {Ret(sp \o <<2>>)}}

Args(sp) ==
    Operands(sp, TU8)
    \cup {MkExpr(sp, TU8, EUnary(UClip(RU(8)), VarA(sp \o <<1>>))),
          MkExpr(sp, TBool, EUnary(UNot, CallOf(sp \o <<1>>, "fs", TBool, <<>>))),
          MkExpr(sp, TU8, ELoc(MkExpr(sp \o <<1>>, TU8, EVarLoc(Id("a"))))),
          MkExpr(sp, TU8, EVarAt(Id("a"))),
          MkExpr(sp, TU8, EUnary(UClip(RU(8)),
                 MkExpr(sp \o <<1>>, TU8, EUnary(UClip(RU(8)), VarB(sp \o <<1, 1>>)))))}

(* lists of n arguments: the i-th has the span sp \o <<i>>                 *)
RECURSIVE ArgLists(_, _)
ArgLists(sp, n) ==
    IF n = 0 THEN {<<>>}
    ELSE {Append(l, a) : l \in ArgLists(sp, n - 1), a \in Args(sp \o <<n>>)}

Calls(sp) ==
    {CallOf(sp, f, IF ctx_func_map[f].has_return THEN TU8 ELSE lowered_unit_typ, as) :
        f \in DOMAIN ctx_func_map, as \in UNION {ArgLists(sp, n) : n \in 0..MaxArgs}}

Ctors(sp) ==
    {MkExpr(sp, TDatatype("D"),
            ECtor("D", "D", [i \in DOMAIN as |-> Binder(Id("f"), as[i])], None)) :
        as \in UNION {ArgLists(sp, n) : n \in 0..MaxArgs}}

FieldOfCall(sp) ==
    MkExpr(sp, TU8, ELoc(MkExpr(sp \o <<1>>, TU8,
        EUnaryOpr(OprField("f"), CallOf(sp \o <<1, 1>>, "fe", TDatatype("D"), <<>>)))))

Assigns(sp) ==
    {MkExpr(sp, lowered_unit_typ, EAssign(init, lhs, rhs)) :
        init \in BOOLEAN,
        lhs \in {MkExpr(sp \o <<1>>, TU8, EVarLoc(Id("a"))), FieldOfCall(sp \o <<1>>)},
        rhs \in Operands(sp \o <<2>>, TU8)
                \cup {CallOf(sp \o <<2>>, "fe", TU8, <<Ret(sp \o <<2, 1>>)>>),
                      CallOf(sp \o <<2>>, "fp", TU8, <<SumAB(sp \o <<2, 1>>, TU8)>>)}}

Stmts(sp) ==
    {MkStmt(sp, StmtExpr(e)) :
        e \in Units(sp \o <<1>>) \cup {Ret(sp \o <<1>>), Forever(sp \o <<1>>),
                                       VarA(sp \o <<1>>),
                                       CallOf(sp \o <<1>>, "fe", TU8, <<>>)}}
    \cup
    {DeclX(sp, m, init) :
        m \in BOOLEAN,
        init \in {VarA(sp \o <<1>>), SumAB(sp \o <<1>>, TU8), Ret(sp \o <<1>>),
                  CallOf(sp \o <<1>>, "fe", TU8, <<VarA(sp \o <<1, 1>>)>>),
                  CallOf(sp \o <<1>>, "fs", TU8, <<VarA(sp \o <<1, 1>>)>>)}}
    \cup
    {MkStmt(sp, StmtDecl(PatternVar(sp \o <<0>>, TU8, Id("x"), TRUE), None))}

RECURSIVE StmtLists(_, _)
StmtLists(sp, n) ==
    IF n = 0 THEN {<<>>}
    ELSE {Append(l, a) : l \in StmtLists(sp, n - 1), a \in Stmts(sp \o <<n>>)}

declares_x(stmts) == \E i \in DOMAIN stmts : stmts[i].x.x = "Decl"

Tails(sp) ==
    {VarA(sp), SumAB(sp, TU8), Ret(sp), CallOf(sp, "fe", TU8, <<>>),
     CallOf(sp, "fv", lowered_unit_typ, <<>>)}

Blocks(sp) ==
    {MkExpr(sp, lowered_unit_typ, EBlock(ss, None)) :
        ss \in UNION {StmtLists(sp, n) : n \in 0..MaxStmts}}
    \cup
    {MkExpr(sp, t.typ, EBlock(ss, Some(t))) :
        ss \in UNION {StmtLists(sp, n) : n \in 0..MaxStmts}, t \in Tails(sp \o <<0>>)}
    \cup
    {MkExpr(sp, TU8, EBlock(ss, Some(MkExpr(sp \o <<0>>, TU8, EVar(Id("x")))))) :
        ss \in {l \in UNION {StmtLists(sp, n) : n \in 0..MaxStmts} : declares_x(l)}}

Bodies(sp) ==
    Units(sp) \cup {Ret(sp), Forever(sp), VarA(sp), CallOf(sp, "fe", TU8, <<>>)}
    \cup {MkExpr(sp, lowered_unit_typ,
                 EBlock(<<DeclX(sp \o <<1>>, TRUE, VarA(sp \o <<1, 1>>)),
                          MkStmt(sp \o <<2>>, StmtExpr(e))>>, None)) :
            e \in {Ret(sp \o <<2, 1>>), CallOf(sp \o <<2, 1>>, "fv", lowered_unit_typ, <<>>),
                   MkExpr(sp \o <<2, 1>>, lowered_unit_typ, EHeader)}}

Whiles(sp) ==
    {MkExpr(sp, IF is_const_true(c) THEN TNever ELSE lowered_unit_typ, EWhile(c, b, invs)) :
        c \in BoolOperands(sp \o <<1>>), b \in Bodies(sp \o <<2>>),
        invs \in {<<>>, <<VarC(sp \o <<3>>)>>,
                  <<VarC(sp \o <<3>>), CallOf(sp \o <<4>>, "fe", TBool, <<>>)>>}}

VarI(sp) == MkExpr(sp, TMath, EVar(Id("i")))
BinderI == {<<Binder(Id("i"), TMath)>>, <<Binder(Id("i"), TTypParam("A"))>>,
            <<Binder(Id("i"), TMath), Binder(Id("a"), TBoxed(TU8))>>}

Quants(sp) ==
    {MkExpr(sp, TBool, EQuant(q, bs, body)) :
        q \in {"Forall", "Exists"}, bs \in BinderI,
        body \in BoolOperands(sp \o <<1>>)
                 \cup {MkExpr(sp \o <<1>>, TBool,
                              EBinary(OpEq, VarI(sp \o <<1, 1>>), VarI(sp \o <<1, 2>>)))}}

Closures(sp) ==
    {MkExpr(sp, TDatatype("fn"), EClosure(bs, body)) :
        bs \in BinderI,
        body \in Operands(sp \o <<1>>, TU8) \cup {VarI(sp \o <<1>>),
                      MkExpr(sp \o <<1>>, TTypParam("A"), EVar(Id("i")))}}

Chooses(sp) ==
    {MkExpr(sp, body.typ, EChoose(bs, c, body)) :
        bs \in BinderI, c \in BoolOperands(sp \o <<1>>),
        body \in {VarI(sp \o <<2>>), Ret(sp \o <<2>>),
                  CallOf(sp \o <<2>>, "fe", TU8, <<>>)}}

Foralls(sp) ==
    {MkExpr(sp, lowered_unit_typ, EForall(<<Binder(Id("i"), TMath)>>, rq, en, pf)) :
        rq \in {VarC(sp \o <<1>>), CallOf(sp \o <<1>>, "fe", TBool, <<>>)},
        en \in {VarC(sp \o <<2>>), Ret(sp \o <<2>>),
                MkExpr(sp \o <<2>>, TBool,
                       EBinary(OpEq, VarI(sp \o <<2, 1>>), VarI(sp \o <<2, 2>>)))},
        pf \in Bodies(sp \o <<3>>)}

OpenInvariants(sp) ==
    {MkExpr(sp, lowered_unit_typ,
            EOpenInvariant(inv, Binder(Id("inner"), TU8), body, at)) :
        inv \in {VarA(sp \o <<1>>), CallOf(sp \o <<1>>, "fs", TU8, <<>>), Ret(sp \o <<1>>),
                 CallOf(sp \o <<1>>, "fe", TU8, <<>>)},
        body \in Bodies(sp \o <<2>>)
                 \cup {MkExpr(sp \o <<2>>, lowered_unit_typ,
                        EAssign(FALSE, MkExpr(sp \o <<2, 1>>, TU8, EVarLoc(Id("inner"))),
                                One(sp \o <<2, 2>>)))},
        at \in {"Atomic", "NonAtomic"}}

Wraps(sp) ==
    {MkExpr(sp, TBool, EUnary(UNot, e)) : e \in BoolOperands(sp \o <<1>>)}
    \cup {MkExpr(sp, TU8, ELoc(e)) : e \in Operands(sp \o <<1>>, TU8)}
    \cup {MkExpr(sp, TNever, EReturn(Some(e))) : e \in Operands(sp \o <<1>>, TU8)}
    \cup {RetUnit(sp), MkExpr(sp, lowered_unit_typ, EFuel("fs", 1)),
          MkExpr(sp, lowered_unit_typ, EAssertBV(VarC(sp \o <<1>>))),
          MkExpr(sp, lowered_unit_typ, EAssertBV(CallOf(sp \o <<1>>, "fe", TBool, <<>>)))}

Binders(sp) ==
    Quants(sp) \cup Closures(sp) \cup Chooses(sp) \cup Foralls(sp) \cup OpenInvariants(sp)

(* a construct with scopes as a statement after a declaration              *)
Nested(sp) ==
    {MkExpr(sp, lowered_unit_typ,
            EBlock(<<DeclX(sp \o <<1>>, FALSE, VarA(sp \o <<1, 1>>)),
                     MkStmt(sp \o <<2>>, StmtExpr(e))>>, None)) :
        e \in Foralls(sp \o <<2, 1>>) \cup OpenInvariants(sp \o <<2, 1>>)
              \cup Whiles(sp \o <<2, 1>>)}

(* a block that overwrites the parameter a and yields it: { a = 1; a }     *)
SetA(sp) ==
    MkExpr(sp, TU8,
           EBlock(<<MkStmt(sp \o <<1>>, StmtExpr(
                       MkExpr(sp \o <<1, 1>>, lowered_unit_typ,
                              EAssign(FALSE, MkExpr(sp \o <<1, 1, 1>>, TU8, EVarLoc(Id("a"))),
                                      One(sp \o <<1, 1, 2>>)))))>>,
                  Some(VarA(sp \o <<0>>))))

(* operands of which one overwrites a variable that another reads          *)
Overwrites(sp) ==
    {MkExpr(sp, TU8, EBinary(OpArith("Add", "mE"), p[1], p[2])) :
        p \in {<<VarA(sp \o <<1>>), SetA(sp \o <<2>>)>>,
               <<SetA(sp \o <<1>>), VarA(sp \o <<2>>)>>,
               <<VarB(sp \o <<1>>), SetA(sp \o <<2>>)>>,
               <<SumAB(sp \o <<1>>, TU8), SetA(sp \o <<2>>)>>}}
    \cup
    {CallOf(sp, f, TU8, as) :
        f \in {"fe", "fs"},
        as \in {<<VarA(sp \o <<1>>), SetA(sp \o <<2>>)>>,
                <<SetA(sp \o <<1>>), VarA(sp \o <<2>>)>>,
                <<VarB(sp \o <<1>>), SetA(sp \o <<2>>)>>,
                <<SumAB(sp \o <<1>>, TU8), SetA(sp \o <<2>>)>>}}

(* a pre-state reference after a declaration: old(a) or old(z) after a     *)
(* declaration of a, which shadows the parameter, or of x                  *)
PreRefs(sp) ==
    {MkExpr(sp, TU8,
            EBlock(<<MkStmt(sp \o <<1>>,
                            StmtDecl(PatternVar(sp \o <<1, 0>>, TU8, Id(n), FALSE),
                                     Some(VarB(sp \o <<1, 1>>))))>>,
                   Some(MkExpr(sp \o <<0>>, TU8, EVarAt(Id(m)))))) :
        n \in {"a", "x"}, m \in {"a", "z"}}
    \cup {MkExpr(sp, TU8, EVarAt(Id("z")))}

(* assignments whose left-hand side is a value and no location: a = 1      *)
(* with a read as a variable, 1 = 1, fe() = 1, and the same from a call    *)
NonLocationAssigns(sp) ==
    {MkExpr(sp, lowered_unit_typ, EAssign(FALSE, lhs, rhs)) :
        lhs \in {VarA(sp \o <<1>>), One(sp \o <<1>>), CallOf(sp \o <<1>>, "fe", TU8, <<>>)},
        rhs \in {One(sp \o <<2>>), CallOf(sp \o <<2>>, "fe", TU8, <<>>)}}

(* a declaration that shadows a parameter or not, read by the tail of its  *)
(* block: { let a = a; a }, { let a = b; a + a }, { let x = a; fe(x) },    *)
(* { let x = x; x }                                                         *)
ShadowTails(sp, n) ==
    {MkExpr(sp, TU8, EVar(Id(n))),
     MkExpr(sp, TU8, EBinary(OpArith("Add", "mS"), MkExpr(sp \o <<1>>, TU8, EVar(Id(n))),
                             VarA(sp \o <<2>>))),
     CallOf(sp, "fe", TU8, <<MkExpr(sp \o <<1>>, TU8, EVar(Id(n)))>>),
     CallOf(sp, "fs", TU8, <<MkExpr(sp \o <<1>>, TU8, EVar(Id(n)))>>)}

ShadowDecl(sp, n, init) ==
    MkStmt(sp, StmtDecl(PatternVar(sp \o <<0>>, TU8, Id(n), FALSE), Some(init)))

ShadowsOf(sp, n) ==
    {MkExpr(sp, TU8, EBlock(<<ShadowDecl(sp \o <<1>>, n, init)>>, Some(tail))) :
        init \in {VarA(sp \o <<1, 1>>), VarB(sp \o <<1, 1>>),
                  MkExpr(sp \o <<1, 1>>, TU8, EVar(Id("x")))},
        tail \in ShadowTails(sp \o <<0>>, n)}

Shadows(sp) == ShadowsOf(sp, "a") \cup ShadowsOf(sp, "x")

(* two declarations of one name in one block, the second one initialized   *)
(* from the first: { let a = b; let a = a; a }                              *)
ShadowsTwiceOf(sp, n) ==
    {MkExpr(sp, TU8,
            EBlock(<<ShadowDecl(sp \o <<1>>, n, VarB(sp \o <<1, 1>>)),
                     ShadowDecl(sp \o <<2>>, n, MkExpr(sp \o <<2, 1>>, TU8, EVar(Id(n))))>>,
                   Some(tail))) :
        tail \in ShadowTails(sp \o <<0>>, n)}

ShadowsTwice(sp) == ShadowsTwiceOf(sp, "a") \cup ShadowsTwiceOf(sp, "x")

(* a block that declares a name, as an operand before a read of a          *)
(* parameter or of the name: { let a = b; a } + a, { let x = a; x } + x,   *)
(* fe({ let a = b; a }, a)                                                  *)
ShadowThenRead(sp) ==
    {MkExpr(sp, TU8, EBinary(OpArith("Add", "mS"), s, MkExpr(sp \o <<2>>, TU8, EVar(Id(n))))) :
        s \in Shadows(sp \o <<1>>) \cup ShadowsTwice(sp \o <<1>>), n \in {"a", "x"}}
    \cup {CallOf(sp, "fe", TU8, <<s, VarA(sp \o <<2>>)>>) : s \in Shadows(sp \o <<1>>)}

(* calls of a spec closure: the target and the arguments are values, calls *)
(* with statements, or returns: a(b), fe(a)(b), a(fe(a)), a(b, return)     *)
FnSpecCalls(sp) ==
    {MkExpr(sp, TU8, ECallFnSpec(f, as)) :
        f \in {VarA(sp \o <<0>>), CallOf(sp \o <<0>>, "fs", TU8, <<>>),
               CallOf(sp \o <<0>>, "fe", TU8, <<VarA(sp \o <<0, 1>>)>>), Ret(sp \o <<0>>)},
        as \in {<<>>, <<VarB(sp \o <<1>>)>>,
                <<CallOf(sp \o <<1>>, "fe", TU8, <<VarA(sp \o <<1, 1>>)>>)>>,
                <<VarB(sp \o <<1>>), Ret(sp \o <<2>>)>>,
                <<VarB(sp \o <<1>>), SumAB(sp \o <<2>>, TU8)>>}}

Inputs ==
    Binaries(<<>>) \cup Ifs(<<>>) \cup Calls(<<>>) \cup Ctors(<<>>) \cup Assigns(<<>>)
    \cup Blocks(<<>>) \cup Whiles(<<>>) \cup Binders(<<>>) \cup Wraps(<<>>)
    \cup Nested(<<>>) \cup Overwrites(<<>>) \cup PreRefs(<<>>)
    \cup NonLocationAssigns(<<>>) \cup Shadows(<<>>) \cup ShadowsTwice(<<>>)
    \cup ShadowThenRead(<<>>) \cup FnSpecCalls(<<>>)

---------------------------------------------------------------------------
(* The caller: it builds a State, declares the parameters, registers the   *)
(* return destination and postconditions, lowers a body and finalizes.     *)

NoResult == [fail |-> "none", msg |-> "", state |-> State_new, stms |-> <<>>, rv |-> RvNever]
NoExpr == MkExpr(<<>>, lowered_unit_typ, [x |-> "None"])

RECURSIVE declare_params_loop(_, _)
declare_params_loop(st, params) ==
    IF params = <<>> THEN st
    ELSE declare_params_loop(
            declare_new_var(st, Head(params).name, Head(params).a, FALSE, FALSE).state,
            Tail(params))

Init ==
    /\ state = State_new
    /\ pre = State_new
    /\ expr = NoExpr
    /\ result = NoResult
    /\ pc = "new"

declare_params ==
    /\ pc = "new"
    /\ \E s \in Setups :
          state' = [declare_params_loop([state EXCEPT !.view_as_spec = s[1]], Params)
                        EXCEPT !.ret_post = s[2]]
    /\ pc' = "ready"
    /\ UNCHANGED <<pre, expr, result>>

lower ==
    /\ pc = "ready"
    /\ \E e \in Inputs :
          /\ expr' = e
          /\ result' = expr_to_stm_opt(state, e)
    /\ pre' = state
    /\ state' = result'.state
    /\ pc' = "lowered"

do_finalize ==
    /\ pc = "lowered"
    /\ result.fail = "ok"
    /\ state' = finalize(state)
    /\ pc' = "final"
    /\ UNCHANGED <<pre, expr, result>>

(* the caller erases the unused unique ids from the output                 *)
finalize_output ==
    /\ pc = "lowered"
    /\ result.fail = "ok"
    /\ result' = [result EXCEPT !.stms = finalize_stms(state, @),
                                !.rv = finalize_rv(state, @)]
    /\ pc' = "finalized"
    /\ UNCHANGED <<state, pre, expr>>

Next == declare_params \/ lower \/ do_finalize \/ finalize_output

Spec == Init /\ [][Next]_vars

---------------------------------------------------------------------------
(* The tracker on its own: a caller that applies the methods of State in   *)
(* any order to the names x and y.                                         *)

MaxGen == 2
MaxScopes == 3
MaxDecls == 3

TrackerNames == {Id("x"), Id("y")}

TrackerReady == pc \in {"new", "tracker"} /\ state.aborted = ""

BelowMaxGen(x) ==
    x \in DOMAIN state.rename_counters => state.rename_counters[x] < MaxGen

tracker_push_scope ==
    /\ TrackerReady
    /\ scope_map_num_scopes(state.rename_map) < MaxScopes
    /\ state' = push_scope(state)
    /\ pre' = state
    /\ pc' = "tracker"
    /\ UNCHANGED <<expr, result>>

tracker_pop_scope ==
    /\ TrackerReady
    /\ state' = pop_scope(state)
    /\ pre' = state
    /\ pc' = "tracker"
    /\ UNCHANGED <<expr, result>>

tracker_declare_new_var ==
    /\ TrackerReady
    /\ Len(state.local_decls) < MaxDecls
    /\ \E x \in TrackerNames, may_need_rename \in BOOLEAN :
          /\ BelowMaxGen(x)
          /\ state' = declare_new_var(state, x, TU8, FALSE, may_need_rename).state
    /\ pre' = state
    /\ pc' = "tracker"
    /\ UNCHANGED <<expr, result>>

tracker_alloc_unique_var ==
    /\ TrackerReady
    /\ \E x \in TrackerNames :
          /\ BelowMaxGen(x)
          /\ state' = alloc_unique_var(state, x).state
    /\ pre' = state
    /\ pc' = "tracker"
    /\ UNCHANGED <<expr, result>>

TrackerNext ==
    \/ tracker_push_scope
    \/ tracker_pop_scope
    \/ tracker_declare_new_var
    \/ tracker_alloc_unique_var

TrackerSpec == Init /\ [][TrackerNext]_vars

---------------------------------------------------------------------------
(* The sub-translations of a construct, in evaluation order.               *)

IsPrefix(p, s) == Len(p) <= Len(s) /\ SubSeq(s, 1, Len(p)) = p

(* the operands a construct lowers one after the other                     *)
Kids(e) ==
    CASE e.x.x = "Block" -> e.x.stmts \o e.x.body
      [] e.x.x = "Ctor" -> [i \in DOMAIN e.x.binders |-> e.x.binders[i].a]
      [] e.x.x = "Call" /\ e.x.target.k = "Static" -> e.x.args
      [] e.x.x = "Binary" -> <<e.x.e1, e.x.e2>>
      [] e.x.x = "If" -> <<e.x.e0, e.x.e1>> \o e.x.e2
      [] e.x.x = "While" -> <<e.x.cond, e.x.body>> \o e.x.invs
      [] e.x.x = "Assign" -> <<e.x.lhs, e.x.rhs>>
      [] OTHER -> <<>>

IsBlockStmt(e, i) == e.x.x = "Block" /\ i <= Len(e.x.stmts)

(* the state a sub-translation leaves to the next operand: a declaration   *)
(* of a block opens its scope                                              *)
KidAfter(r) ==
    IF "decl_bnd" \in DOMAIN r /\ r.decl_bnd # None
    THEN insert_unique_var(push_scope(r.state), r.decl_bnd[1].decl.ident)
    ELSE r.state

(* the result of lowering operand i of e from state st, the operands       *)
(* before it lowered in turn                                               *)
RECURSIVE KidRun(_, _, _)
KidRun(e, st, i) ==
    LET before == IF i = 1 THEN st ELSE KidAfter(KidRun(e, st, i - 1))
    IN IF IsBlockStmt(e, i) THEN stmt_to_stm(before, Kids(e)[i])
       ELSE expr_to_stm_opt(before, Kids(e)[i])

(* operand i is lowered, every operand before it having yielded a value,   *)
(* and it yields Never                                                     *)
NeverAt(e, st, i) ==
    /\ \A j \in 1..(i - 1) :
          /\ KidRun(e, st, j).fail = "ok"
          /\ KidRun(e, st, j).rv.k # "Never"
          /\ IsBlockStmt(e, j) => check_unit_or_never(KidRun(e, st, j).rv)
    /\ KidRun(e, st, i).fail = "ok"
    /\ KidRun(e, st, i).rv.k = "Never"

(* the statements of operands 1..i, in evaluation order                    *)
RECURSIVE KidStms(_, _, _)
KidStms(e, st, i) ==
    IF i = 0 THEN <<>> ELSE KidStms(e, st, i - 1) \o KidRun(e, st, i).stms

(* the declarations of the statements 1..i of a block                      *)
RECURSIVE KidDecls(_, _, _)
KidDecls(e, st, i) ==
    IF i = 0 \/ e.x.x # "Block" THEN <<>>
    ELSE KidDecls(e, st, i - 1)
         \o (IF KidRun(e, st, i).fail = "ok" /\ KidRun(e, st, i).decl_bnd # None
             THEN <<KidRun(e, st, i).decl_bnd[1].decl>> ELSE <<>>)

(* every statement of a statement list, nested ones included               *)
RECURSIVE AllStms(_)
AllStms(stms) ==
    UNION {{stms[i]} \cup
           (CASE stms[i].x.x = "Block" -> AllStms(stms[i].x.stms)
              [] stms[i].x.x = "If" -> AllStms(<<stms[i].x.thn>> \o stms[i].x.els)
              [] stms[i].x.x = "While" ->
                    AllStms(stms[i].x.cond_stms \o <<stms[i].x.body>>)
              [] stms[i].x.x = "DeadEnd" -> AllStms(<<stms[i].x.s>>)
              [] stms[i].x.x = "OpenInvariant" -> AllStms(<<stms[i].x.body>>)
              [] OTHER -> {}) : i \in DOMAIN stms}

(* the operands named by the rule: a block statement, a constructor field, *)
(* a static-call argument, the left operand of a binary operation, the     *)
(* condition of a conditional or of a loop                                 *)
EarlierSiblings(e) ==
    CASE e.x.x = "Block" -> 1..Len(e.x.stmts)
      [] e.x.x = "Ctor" -> 1..Len(e.x.binders)
      [] e.x.x = "Call" /\ e.x.target.k = "Static" -> 1..Len(e.x.args)
      [] e.x.x \in {"Binary", "If", "While"} -> {1}
      [] OTHER -> {}

(* C1: when an earlier sibling yields Never, the construct yields Never    *)
(* and its output has no statement that comes from a later sibling.        *)
C1_NeverPropagation ==
    (pc = "lowered" /\ result.fail # "panic") =>
        \A i \in EarlierSiblings(expr) :
            NeverAt(expr, pre, i) =>
                /\ result.fail = "ok"
                /\ result.rv = RvNever
                /\ \A j \in (i + 1)..Len(Kids(expr)) :
                      \A s \in AllStms(result.stms) :
                          ~IsPrefix(Kids(expr)[j].span, s.span)

(* the part of C1 about the output alone: on every translation that        *)
(* succeeds                                                                *)
NoLaterSiblingStatement ==
    (pc = "lowered" /\ result.fail = "ok") =>
        \A i \in EarlierSiblings(expr) :
            NeverAt(expr, pre, i) =>
                /\ result.rv = RvNever
                /\ \A j \in (i + 1)..Len(Kids(expr)) :
                      \A s \in AllStms(result.stms) :
                          ~IsPrefix(Kids(expr)[j].span, s.span)

(* C2: when an earlier sibling yields Never, no later sibling is lowered:  *)
(* the temp counter, the rename counters and the declared locals are those *)
(* the Never sub-translation left (a block then adds its own declarations) *)
C2_LaterSiblingsNotLowered ==
    (pc = "lowered" /\ result.fail = "ok") =>
        \A i \in EarlierSiblings(expr) :
            NeverAt(expr, pre, i) =>
                LET sub == KidRun(expr, pre, i)
                IN /\ state.next_var = sub.state.next_var
                   /\ state.rename_counters = sub.state.rename_counters
                   /\ state.local_decls
                        = sub.state.local_decls \o KidDecls(expr, pre, i)

(* the statements a construct returns, a block's read inside its Block     *)
Returned(e, stms) ==
    IF e.x.x = "Block" /\ Len(stms) = 1 /\ stms[1].x.x = "Block" /\ stms[1].span = e.span
    THEN stms[1].x.stms ELSE stms

(* C3: a construct that yields Never because operand i does returns the    *)
(* statements of the operands 1..i, in evaluation order; an assignment     *)
(* whose right side never returns returns the left side's statements too.  *)
C3_StatementsUpToNever ==
    (pc = "lowered" /\ result.fail = "ok") =>
        \A i \in DOMAIN Kids(expr) :
            (expr.x.x # "If" \/ i = 1) /\ (expr.x.x # "While" \/ i = 1)
            /\ NeverAt(expr, pre, i) /\ result.rv = RvNever =>
                Returned(expr, result.stms) = KidStms(expr, pre, i)

---------------------------------------------------------------------------
(* Scope balance.                                                          *)

ScopeDepth(st) == scope_map_num_scopes(st.rename_map)

(* the constructs that open scopes                                         *)
OpensScope(e) ==
    \/ e.x.x \in {"Quant", "Closure", "Choose", "Forall", "OpenInvariant"}
    \/ e.x.x = "Block" /\ declares_x(e.x.stmts)

---------------------------------------------------------------------------
(* Checked arithmetic.                                                     *)

IsArith(e) == e.x.x = "Binary" /\ e.x.op.k = "Arith"

(* both operands of the binary expression e lower to values                *)
BothValues(e, st) ==
    \A i \in {1, 2} : KidRun(e, st, i).fail = "ok" /\ KidRun(e, st, i).rv.k = "Some"

FixedWidth(typ) == typ.t = "Int" /\ typ.range.k \in {"U", "I"}

(* the condition under which the rule asks for a guard                     *)
NeedsGuard(st, e) ==
    /\ ~st.view_as_spec
    /\ ctx_inferred_modes[e.x.op.mode] # "Spec"
    /\ FixedWidth(e.typ)

IsBareVar(e) == e.x.x = "Var"

(* C5: an arithmetic node whose operands yield values emits, after the     *)
(* operands' statements, exactly one assertion when the translation is not *)
(* in spec view, the operator's mode is not spec and the node's type is a  *)
(* fixed-width integer, and nothing otherwise; its value is the one the    *)
(* spec-view translation yields; bare variables in spec view give no       *)
(* statement at all.                                                       *)
C5_BoundsAssertion ==
    (pc = "lowered" /\ IsArith(expr) /\ BothValues(expr, pre)) =>
        LET ops == KidStms(expr, pre, 2)
            n == Len(ops)
            in_spec == expr_to_stm_opt([pre EXCEPT !.view_as_spec = TRUE], expr)
        IN /\ result.fail = "ok"
           /\ Len(result.stms) = n + (IF NeedsGuard(pre, expr) THEN 1 ELSE 0)
           /\ SubSeq(result.stms, 1, n) = ops
           /\ NeedsGuard(pre, expr) => result.stms[n + 1].x.x = "Assert"
           /\ result.rv.k = "Some"
           /\ in_spec.fail = "ok" /\ in_spec.rv = result.rv
           /\ result.rv.e.x = XBinary(expr.x.op, KidRun(expr, pre, 1).rv.e,
                                      KidRun(expr, pre, 2).rv.e)
           /\ (pre.view_as_spec /\ IsBareVar(expr.x.e1) /\ IsBareVar(expr.x.e2))
                 => result.stms = <<>>

(* a guarded node whose operands have statements of their own              *)
C5_Witness ==
    /\ pc = "lowered" /\ IsArith(expr) /\ BothValues(expr, pre)
    /\ NeedsGuard(pre, expr)
    /\ KidRun(expr, pre, 1).stms # <<>> /\ KidRun(expr, pre, 2).stms # <<>>
    /\ Len(result.stms) = Len(KidStms(expr, pre, 2)) + 1

(* the assertions a node emits under its own span                          *)
OwnAsserts(e, stms) == {i \in DOMAIN stms : stms[i].span = e.span /\ stms[i].x.x = "Assert"}

(* C6: the guard is the last statement of the node's output; for add, sub  *)
(* and mul it asserts that the result expression has the node's type, for  *)
(* div and mod that the divisor differs from the zero constant of its      *)
(* type, each with its own message; in spec view the node emits no guard.  *)
C6_GuardContent ==
    (pc = "lowered" /\ IsArith(expr) /\ BothValues(expr, pre)) =>
        /\ result.fail = "ok"
        /\ pre.view_as_spec => OwnAsserts(expr, result.stms) = {}
        /\ NeedsGuard(pre, expr) =>
             LET g == result.stms[Len(result.stms)]
                 bin == result.rv.e
                 divisor == KidRun(expr, pre, 2).rv.e
                 zero == MkExp(divisor.span, divisor.typ, XConst(CNat("0")))
             IN /\ OwnAsserts(expr, result.stms) = {Len(result.stms)}
                /\ g.x.e.span = expr.span /\ g.x.e.typ = TBool
                /\ expr.x.op.arith \in {"Add", "Sub", "Mul"} =>
                     /\ g.x.e.x = XUnaryOpr(OprHasType(expr.typ), bin)
                     /\ g.x.error =
                          Some(air_error("possible arithmetic underflow/overflow", expr.span))
                /\ expr.x.op.arith \in {"EuclideanDiv", "EuclideanMod"} =>
                     /\ g.x.e.x = XBinary(OpNe, divisor, zero)
                     /\ g.x.error = Some(air_error("possible division by zero", expr.span))

(* a guarded division whose divisor is the value of a call                 *)
C6_Witness ==
    /\ pc = "lowered" /\ IsArith(expr) /\ BothValues(expr, pre)
    /\ NeedsGuard(pre, expr)
    /\ expr.x.op.arith = "EuclideanDiv"
    /\ expr.x.e2.x.x = "Call"
    /\ result.stms[Len(result.stms)].x.x = "Assert"

---------------------------------------------------------------------------
(* Conditionals.                                                           *)

(* e is a conditional with an else branch whose condition and branches all *)
(* lower to values                                                         *)
IfOfValues(e, st) ==
    /\ e.x.x = "If" /\ e.x.e2 # None
    /\ \A i \in 1..3 : KidRun(e, st, i).fail = "ok" /\ KidRun(e, st, i).rv.k = "Some"

DeclaredIdents(st) == {st.local_decls[i].ident : i \in DOMAIN st.local_decls}

(* C7: with a condition that yields a value and two branches that yield    *)
(* values without statements, the conditional lowers to the condition's    *)
(* statements and the pure expression If(cond, v1, v2); it emits no If     *)
(* statement and declares no temp.                                         *)
C7_ConditionalCollapse ==
    (/\ pc = "lowered" /\ IfOfValues(expr, pre)
     /\ KidRun(expr, pre, 2).stms = <<>> /\ KidRun(expr, pre, 3).stms = <<>>) =>
        LET r0 == KidRun(expr, pre, 1)
            r1 == KidRun(expr, pre, 2)
            r2 == KidRun(expr, pre, 3)
        IN /\ result.fail = "ok"
           /\ result.stms = r0.stms
           /\ result.rv = RvSome(MkExp(expr.span, expr.typ, XIf(r0.rv.e, r1.rv.e, r2.rv.e)))
           /\ state.next_var = r2.state.next_var
           /\ state.local_decls = r2.state.local_decls
           /\ \A s \in AllStms(result.stms) : ~(s.x.x = "If" /\ s.span = expr.span)

(* a collapsed conditional whose condition has statements                  *)
C7_Witness ==
    /\ pc = "lowered" /\ IfOfValues(expr, pre)
    /\ KidRun(expr, pre, 2).stms = <<>> /\ KidRun(expr, pre, 3).stms = <<>>
    /\ KidRun(expr, pre, 1).stms # <<>>
    /\ result.fail = "ok" /\ result.rv.k = "Some" /\ result.rv.e.x.x = "If"

(* the statements of a branch of an If statement emitted for e             *)
BranchStms(e, stm) ==
    IF stm.x.x = "Block" /\ stm.span = e.span THEN stm.x.stms ELSE <<stm>>

(* the assignments to the variable id among stms, nested ones included     *)
AssignsTo(id, stms) ==
    {s \in AllStms(stms) : s.x.x = "Assign" /\ s.x.lhs.dest.x = XVarLoc(id)}

(* stms are own followed by the first-write assignment of v to id          *)
EndsWithInit(stms, own, id, v) ==
    /\ Len(stms) = Len(own) + 1
    /\ SubSeq(stms, 1, Len(own)) = own
    /\ stms[Len(stms)].x.x = "Assign"
    /\ stms[Len(stms)].x.lhs.dest.x = XVarLoc(id)
    /\ stms[Len(stms)].x.lhs.is_init
    /\ stms[Len(stms)].x.rhs = v
    /\ Cardinality(AssignsTo(id, stms)) = 1

(* C8: with two branches that yield values, one at least with statements,  *)
(* the output is the condition's statements and one If statement; one      *)
(* fresh temp is declared; each branch ends with the assignment of its     *)
(* value to the temp, its only assignment there; the result is the temp.   *)
C8_ConditionalThroughTemp ==
    (/\ pc = "lowered" /\ IfOfValues(expr, pre)
     /\ (KidRun(expr, pre, 2).stms # <<>> \/ KidRun(expr, pre, 3).stms # <<>>)) =>
        LET r0 == KidRun(expr, pre, 1)
            r1 == KidRun(expr, pre, 2)
            r2 == KidRun(expr, pre, 3)
            n == Len(r0.stms)
            the_if == result.stms[n + 1]
            id == result.rv.e.x.id
        IN /\ result.fail = "ok"
           /\ Len(result.stms) = n + 1 /\ SubSeq(result.stms, 1, n) = r0.stms
           /\ the_if.x.x = "If" /\ the_if.span = expr.span /\ the_if.x.cond = r0.rv.e
           /\ result.rv.k = "Some" /\ result.rv.e.x.x = "Var"
           /\ result.rv.e.typ = expr.typ
           /\ id \notin DeclaredIdents(r2.state)
           /\ state.local_decls
                = Append(r2.state.local_decls, LocalDeclX(id, expr.typ, FALSE))
           /\ state.next_var = r2.state.next_var + 1
           /\ EndsWithInit(BranchStms(expr, the_if.x.thn), r1.stms, id, r1.rv.e)
           /\ the_if.x.els # None
           /\ EndsWithInit(BranchStms(expr, the_if.x.els[1]), r2.stms, id, r2.rv.e)
           /\ AssignsTo(id, r0.stms) = {}

(* a conditional whose then branch alone has statements                    *)
C8_Witness ==
    /\ pc = "lowered" /\ IfOfValues(expr, pre)
    /\ KidRun(expr, pre, 2).stms # <<>> /\ KidRun(expr, pre, 3).stms = <<>>
    /\ result.fail = "ok" /\ result.rv.k = "Some" /\ result.rv.e.x.x = "Var"
    /\ result.stms[Len(result.stms)].x.x = "If"

---------------------------------------------------------------------------
(* Calls.                                                                  *)

(* e is a static call of a known function whose arguments all lower to     *)
(* values                                                                  *)
CallOfValues(e, st) ==
    /\ e.x.x = "Call" /\ e.x.target.k = "Static"
    /\ e.x.target.fun \in DOMAIN ctx_func_map
    /\ \A i \in DOMAIN e.x.args :
          KidRun(e, st, i).fail = "ok" /\ KidRun(e, st, i).rv.k = "Some"

Callee(e) == ctx_func_map[e.x.target.fun]

ArgValues(e, st) == [i \in DOMAIN e.x.args |-> KidRun(e, st, i).rv.e]

(* the state once the arguments are lowered                                *)
ArgsState(e, st) == IF e.x.args = <<>> THEN st ELSE KidRun(e, st, Len(e.x.args)).state

(* the statements emitted for the call itself: the hoists, then the call   *)
CallStms(stms) ==
    LET last == stms[Len(stms)]
    IN IF last.x.x = "Block" THEN last.x.stms ELSE <<last>>

(* a cheap argument value, as the rule lists them                          *)
RECURSIVE Cheap(_)
Cheap(v) ==
    \/ v.x.x \in {"Const", "Var", "VarAt", "Old", "Loc"}
    \/ v.x.x = "Unary" /\ v.x.op.k \in {"Not", "Clip"} /\ Cheap(v.x.e)
    \/ v.x.x = "UnaryOpr" /\ v.x.opr.k \in {"Box", "Unbox"} /\ Cheap(v.x.e)

(* stm is the first-write assignment of v to the variable id               *)
IsInitOf(stm, id, v) ==
    /\ stm.x.x = "Assign"
    /\ stm.x.lhs.dest.x = XVarLoc(id) /\ stm.x.lhs.is_init
    /\ stm.x.rhs = v

(* C9: the call statement of a proof or exec callee has the arguments of   *)
(* the source call in number and order; a cheap argument value is passed   *)
(* as it is; every other one is replaced by a temp of its own, not         *)
(* declared before, with a LocalDecl, initialised by an assignment that    *)
(* precedes the call statement.                                            *)
C9_CallHoisting ==
    (pc = "lowered" /\ CallOfValues(expr, pre) /\ Callee(expr).mode # "Spec") =>
        LET vals == ArgValues(expr, pre)
            ops == KidStms(expr, pre, Len(expr.x.args))
            own == CallStms(result.stms)
            call == own[Len(own)]
            hoists == SubSeq(own, 1, Len(own) - 1)
            hoisted == {i \in DOMAIN vals : ~Cheap(vals[i])}
            before == DeclaredIdents(ArgsState(expr, pre))
        IN /\ result.fail = "ok"
           /\ Len(result.stms) = Len(ops) + 1
           /\ SubSeq(result.stms, 1, Len(ops)) = ops
           /\ call.x.x = "Call" /\ call.x.fun = expr.x.target.fun
           /\ Len(call.x.args) = Len(expr.x.args)
           /\ \A i \in DOMAIN vals : Cheap(vals[i]) => call.x.args[i] = vals[i]
           /\ Len(hoists) = Cardinality(hoisted)
           /\ \A i \in hoisted :
                 /\ call.x.args[i].x.x = "Var"
                 /\ call.x.args[i].x.id \notin before
                 /\ call.x.dest # None =>
                       call.x.dest[1].dest.x # XVarLoc(call.x.args[i].x.id)
                 /\ call.x.args[i].x.id \in DeclaredIdents(state)
                 /\ \E k \in DOMAIN hoists :
                       IsInitOf(hoists[k], call.x.args[i].x.id, vals[i])
                 /\ \A j \in hoisted : j # i => call.x.args[j] # call.x.args[i]

(* a call with a cheap argument and one that is hoisted                    *)
C9_Witness ==
    /\ pc = "lowered" /\ CallOfValues(expr, pre) /\ Callee(expr).mode # "Spec"
    /\ result.fail = "ok"
    /\ \E i, j \in DOMAIN expr.x.args :
          /\ Cheap(ArgValues(expr, pre)[i])
          /\ ~Cheap(ArgValues(expr, pre)[j])
    /\ result.stms[Len(result.stms)].x.x = "Block"

---------------------------------------------------------------------------
(* Loop reachability.                                                      *)

IsLiteralTrue(e) == e.x = EConst(CBool(TRUE))

(* a loop whose condition yields a value and that is lowered to the end    *)
LoopLowered(e, st) ==
    /\ e.x.x = "While"
    /\ KidRun(e, st, 1).fail = "ok"
    /\ KidRun(e, st, 1).rv.k = "Some"

IsLoopOf(e, stm) == stm.x.x = "While" /\ stm.span = e.span

IsAssumeFalse(stm) ==
    stm.x.x = "Assume" /\ stm.x.e.x = XConst(CBool(FALSE))

(* C11: a loop on the literal true lowers to the loop statement followed   *)
(* by assume(false) and yields Never; a loop on any other condition that   *)
(* yields a value lowers to the loop statement alone and yields            *)
(* ImplicitUnit, whether its body yields Never or not.                     *)
C11_LoopReachability ==
    (pc = "lowered" /\ result.fail = "ok" /\ LoopLowered(expr, pre)) =>
        IF IsLiteralTrue(expr.x.cond)
        THEN /\ Len(result.stms) = 2
             /\ IsLoopOf(expr, result.stms[1])
             /\ IsAssumeFalse(result.stms[2])
             /\ result.rv = RvNever
        ELSE /\ Len(result.stms) = 1
             /\ IsLoopOf(expr, result.stms[1])
             /\ result.rv.k = "ImplicitUnit"

(* a loop on a condition other than true whose body never returns          *)
C11_Witness ==
    /\ pc = "lowered" /\ result.fail = "ok" /\ LoopLowered(expr, pre)
    /\ ~IsLiteralTrue(expr.x.cond)
    /\ KidRun(expr, pre, 2).fail = "ok"
    /\ KidRun(expr, pre, 2).rv.k = "Never"
    /\ result.rv.k = "ImplicitUnit"

---------------------------------------------------------------------------
(* Short-circuit operators.                                                *)

IsShortCircuit(e) == e.x.x = "Binary" /\ e.x.op.k \in {"And", "Or", "Implies"}

(* the value of the operator when the right operand is not evaluated       *)
SkippedValue(op) == op.k \in {"Or", "Implies"}

(* the right operand is evaluated in the then branch                       *)
RightInThen(op) == op.k \in {"And", "Implies"}

OwnIfs(e, stms) == {s \in AllStms(stms) : s.x.x = "If" /\ s.span = e.span}

ThenStms(e, stm) == BranchStms(e, stm.x.thn)
ElseStms(e, stm) == IF stm.x.els = None THEN <<>> ELSE BranchStms(e, stm.x.els[1])

(* the lowering of the short-circuit operator e from state st into res     *)
ShortCircuitForm(e, st, res) ==
    LET r1 == KidRun(e, st, 1)
        r2 == KidRun(e, st, 2)
        n == Len(r1.stms)
        the_if == res.stms[n + 1]
        taken == IF RightInThen(e.x.op) THEN ThenStms(e, the_if) ELSE ElseStms(e, the_if)
        other == IF RightInThen(e.x.op) THEN ElseStms(e, the_if) ELSE ThenStms(e, the_if)
        const == MkExp(e.span, TBool, XConst(CBool(SkippedValue(e.x.op))))
    IN /\ (OwnIfs(e, res.stms) # {}) <=> (r2.stms # <<>>)
       /\ r2.stms = <<>> =>
             /\ res.stms = r1.stms
             /\ r1.rv.k = "Some" /\ r2.rv.k = "Some"
             /\ res.rv = RvSome(MkExp(e.span, e.typ, XBinary(e.x.op, r1.rv.e, r2.rv.e)))
       /\ r2.stms # <<>> =>
             /\ Len(res.stms) = n + 1 /\ SubSeq(res.stms, 1, n) = r1.stms
             /\ the_if.x.x = "If" /\ the_if.span = e.span
             /\ r1.rv.k = "Some" /\ the_if.x.cond = r1.rv.e
             /\ \A s \in AllStms(other) : ~IsPrefix(e.x.e2.span, s.span)
             /\ IF r2.rv.k = "Some"
                THEN /\ res.rv.k = "Some" /\ res.rv.e.x.x = "Var"
                     /\ EndsWithInit(taken, r2.stms, res.rv.e.x.id, r2.rv.e)
                     /\ EndsWithInit(other, <<>>, res.rv.e.x.id, const)
                ELSE /\ taken = r2.stms
                     /\ other = <<>>
                     /\ res.rv = RvSome(const)

---------------------------------------------------------------------------
(* Return.                                                                 *)

IsReturn(e) == e.x.x = "Return"

(* the lowering of the returned value, when there is one                   *)
ReturnedValue(e, st) == expr_to_stm_opt(st, e.x.ret[1])

(* a return in a function context whose value, if any, yields a value      *)
ReturnOfValue(e, st) ==
    /\ IsReturn(e)
    /\ st.ret_post # None
    /\ e.x.ret # None =>
          /\ ReturnedValue(e, st).fail = "ok"
          /\ ReturnedValue(e, st).rv.k = "Some"

(* the statements before the assertions: those of the value and the        *)
(* assignment to the destination                                           *)
ReturnHead(e, st) ==
    IF e.x.ret = None THEN 0 ELSE Len(ReturnedValue(e, st).stms) + 1

(* C13: a return in a function context whose value yields a value emits    *)
(* the value's statements, the assignment of the value to the return       *)
(* destination, one assertion per postcondition in the registered order    *)
(* and assume(false) last; the result is Never.                            *)
C13_ReturnLowering ==
    (pc = "lowered" /\ result.fail = "ok" /\ ReturnOfValue(expr, pre)) =>
        LET enss == pre.ret_post[1].enss
            h == ReturnHead(expr, pre)
        IN /\ Len(result.stms) = h + Len(enss) + 1
           /\ expr.x.ret # None =>
                 /\ pre.ret_post[1].dest # None
                 /\ SubSeq(result.stms, 1, h - 1) = ReturnedValue(expr, pre).stms
                 /\ result.stms[h].x.x = "Assign"
                 /\ result.stms[h].x.lhs.dest.x = XVarLoc(pre.ret_post[1].dest[1])
                 /\ result.stms[h].x.rhs = ReturnedValue(expr, pre).rv.e
           /\ \A i \in DOMAIN enss :
                 /\ result.stms[h + i].x.x = "Assert"
                 /\ result.stms[h + i].x.e = enss[i]
           /\ IsAssumeFalse(result.stms[Len(result.stms)])
           /\ result.rv = RvNever

(* a return of a value that lowered to statements, with two postconditions *)
C13_Witness ==
    /\ pc = "lowered" /\ result.fail = "ok" /\ ReturnOfValue(expr, pre)
    /\ expr.x.ret # None
    /\ ReturnedValue(expr, pre).stms # <<>>
    /\ Len(pre.ret_post[1].enss) = 2
    /\ pre.ret_post[1].enss[1] # pre.ret_post[1].enss[2]

(* the three misuses of return: a value where the function returns none,   *)
(* no value where the function returns one, no function context            *)
ReturnMisuse(e, st) ==
    /\ IsReturn(e)
    /\ \/ st.ret_post = None
       \/ st.ret_post # None /\ st.ret_post[1].dest = None /\ e.x.ret # None
       \/ st.ret_post # None /\ st.ret_post[1].dest # None /\ e.x.ret = None

(* C14: every misuse of return makes the translation return an error to    *)
(* its caller; none aborts the process.                                    *)
C14_ReturnMisuseDiagnosed ==
    (pc = "lowered" /\ ReturnMisuse(expr, pre)) => result.fail = "err"

---------------------------------------------------------------------------
(* Evaluation order.                                                       *)

(* the variables an SST expression reads when it is evaluated              *)
RECURSIVE Reads(_)
Reads(v) ==
    CASE v.x.x \in {"Var", "VarLoc"} -> {v.x.id}
      [] v.x.x \in {"Loc", "Unary", "UnaryOpr"} -> Reads(v.x.e)
      [] v.x.x = "Binary" -> Reads(v.x.e1) \cup Reads(v.x.e2)
      [] v.x.x = "If" -> Reads(v.x.e0) \cup Reads(v.x.e1) \cup Reads(v.x.e2)
      [] v.x.x = "Call" -> UNION {Reads(v.x.args[i]) : i \in DOMAIN v.x.args}
      [] v.x.x = "Ctor" -> UNION {Reads(v.x.binders[i].a) : i \in DOMAIN v.x.binders}
      [] v.x.x = "Bind" ->
            Reads(v.x.e)
            \cup (IF v.x.bnd.x.x = "Let"
                  THEN UNION {Reads(v.x.bnd.x.binders[i].a) :
                                 i \in DOMAIN v.x.bnd.x.binders}
                  ELSE {})
      [] OTHER -> {}

(* the variables a statement list assigns                                  *)
Writes(stms) ==
    {s.x.lhs.dest.x.id : s \in {t \in AllStms(stms) :
                                   t.x.x = "Assign" /\ t.x.lhs.dest.x.x = "VarLoc"}}
    \cup
    {s.x.dest[1].dest.x.id : s \in {t \in AllStms(stms) :
                                       /\ t.x.x = "Call" /\ t.x.dest # None
                                       /\ t.x.dest[1].dest.x.x = "VarLoc"}}

(* a binary operation or a statement-form call whose operands all yield    *)
(* values                                                                  *)
OrderedOperands(e, st) ==
    /\ \/ e.x.x = "Binary"
       \/ e.x.x = "Call" /\ e.x.target.k = "Static"
          /\ e.x.target.fun \in DOMAIN ctx_func_map /\ Callee(e).mode # "Spec"
    /\ \A i \in DOMAIN Kids(e) :
          KidRun(e, st, i).fail = "ok" /\ KidRun(e, st, i).rv.k = "Some"

(* operand j overwrites a variable that the value of operand i reads       *)
Overwritten(e, st, i, j) ==
    i < j /\ Reads(KidRun(e, st, i).rv.e) \cap Writes(KidRun(e, st, j).stms) # {}

(* the value v is copied by a statement of stms that precedes every        *)
(* statement of the operand with span sp                                   *)
FixedBefore(v, stms, sp) ==
    \E k \in DOMAIN stms :
        /\ stms[k].x.x = "Assign" /\ stms[k].x.rhs = v
        /\ \A m \in 1..k : \A s \in AllStms(<<stms[m]>>) : ~IsPrefix(sp, s.span)

(* C15: when the statements of a later operand overwrite a variable that   *)
(* the value of an earlier operand reads, the earlier value is fixed (it   *)
(* is copied) before those statements in the output.                       *)
C15_EvaluationOrder ==
    (pc = "lowered" /\ result.fail = "ok" /\ OrderedOperands(expr, pre)) =>
        \A i, j \in DOMAIN Kids(expr) :
            Overwritten(expr, pre, i, j) =>
                FixedBefore(KidRun(expr, pre, i).rv.e, result.stms, Kids(expr)[j].span)

---------------------------------------------------------------------------
(* Generation counters.                                                    *)

(* the counters of st are those of st0 or later ones                       *)
CountersNotLower(st0, st) ==
    \A x \in DOMAIN st0.rename_counters :
        /\ x \in DOMAIN st.rename_counters
        /\ st.rename_counters[x] >= st0.rename_counters[x]

(* C16: no operation of the tracker that returns lowers or resets the      *)
(* generation counter of a name.                                           *)
C16_CountersMonotonic ==
    (pc = "tracker" /\ state.aborted = "") => CountersNotLower(pre, state)

(* the same over a translation: the counters after lowering an expression  *)
CountersMonotonicInLowering ==
    pc = "lowered" => CountersNotLower(pre, state)

---------------------------------------------------------------------------
(* Purity folding of a block.                                              *)

(* the state in which operand i of e is lowered                            *)
KidBefore(e, st, i) == IF i = 1 THEN st ELSE KidAfter(KidRun(e, st, i - 1))

(* statement i of the block is a declaration with an initializer that      *)
(* lowers to zero statements                                               *)
PureDeclAt(e, st, i) ==
    LET s == e.x.stmts[i]
    IN /\ s.x.x = "Decl"
       /\ s.x.init # None
       /\ LET r == expr_to_stm_opt(
                      alloc_unique_var(KidBefore(e, st, i), s.x.pattern.x.name).state,
                      s.x.init[1])
          IN r.fail = "ok" /\ r.stms = <<>>

(* the tail of the block yields a value with zero statements               *)
PureTail(e, st) ==
    /\ e.x.body # None
    /\ LET r == KidRun(e, st, Len(e.x.stmts) + 1)
       IN r.fail = "ok" /\ r.rv.k = "Some" /\ r.stms = <<>>

BlockIsPure(e, st) ==
    /\ \A i \in 1..Len(e.x.stmts) : PureDeclAt(e, st, i)
    /\ PureTail(e, st)

(* exp is inner under one let-Binding per name, the first outermost        *)
RECURSIVE LetsOver(_, _, _)
LetsOver(exp, names, inner) ==
    IF names = <<>> THEN exp = inner
    ELSE /\ exp.x.x = "Bind"
         /\ exp.x.bnd.x.x = "Let"
         /\ Len(exp.x.bnd.x.binders) = 1
         /\ exp.x.bnd.x.binders[1].name = Head(names)
         /\ LetsOver(exp.x.e, Tail(names), inner)

DeclNames(e) == [i \in DOMAIN e.x.stmts |-> e.x.stmts[i].x.pattern.x.name]

(* the last operand of the block that is lowered: the first one that       *)
(* yields Never, or the last one                                           *)
LastLowered(e, st) ==
    LET nev == {i \in 1..Len(Kids(e)) : NeverAt(e, st, i)}
    IN IF nev = {} THEN Len(Kids(e)) ELSE CHOOSE i \in nev : TRUE

(* the last statement of the block that is lowered                         *)
LastStmtLowered(e, st) ==
    IF LastLowered(e, st) > Len(e.x.stmts) THEN Len(e.x.stmts) ELSE LastLowered(e, st)

(* what the block yields when it is not folded                             *)
UnfoldedValue(e, st) ==
    LET n == LastLowered(e, st)
    IN IF n = 0 \/ IsBlockStmt(e, n)
       THEN (IF n > 0 /\ KidRun(e, st, n).rv.k = "Never" THEN RvNever
             ELSE RvImplicitUnit(e.span))
       ELSE KidRun(e, st, n).rv

(* the LocalDecl list the last lowered operand leaves                      *)
DeclsOfOperands(e, st) ==
    LET n == LastLowered(e, st)
    IN IF n = 0 THEN st.local_decls ELSE KidRun(e, st, n).state.local_decls

(* C17: a block lowers to zero statements and one value of nested          *)
(* let-Bindings, with no LocalDecl appended, exactly when every statement  *)
(* is a declaration whose initializer lowered to zero statements and the   *)
(* tail yields a value with zero statements; every other block lowers to   *)
(* one Block statement of its operands' statements, yields what its tail   *)
(* yields with no Binding around it, and appends each of its declarations  *)
(* to the LocalDecl list.                                                  *)
C17_PurityFolding ==
    (pc = "lowered" /\ result.fail = "ok" /\ expr.x.x = "Block") =>
        IF BlockIsPure(expr, pre)
        THEN /\ result.stms = <<>>
             /\ result.rv.k = "Some"
             /\ LetsOver(result.rv.e, DeclNames(expr),
                         KidRun(expr, pre, Len(Kids(expr))).rv.e)
             /\ state.local_decls = DeclsOfOperands(expr, pre)
        ELSE /\ Len(result.stms) = 1
             /\ result.stms[1].x.x = "Block"
             /\ result.stms[1].span = expr.span
             /\ result.stms[1].x.stms = KidStms(expr, pre, LastLowered(expr, pre))
             /\ result.rv = UnfoldedValue(expr, pre)
             /\ state.local_decls =
                    DeclsOfOperands(expr, pre)
                    \o KidDecls(expr, pre, LastStmtLowered(expr, pre))

(* a block of two pure declarations and a pure tail, folded                *)
C17_Witness ==
    /\ pc = "lowered" /\ result.fail = "ok" /\ expr.x.x = "Block"
    /\ Len(expr.x.stmts) = 2
    /\ BlockIsPure(expr, pre)
    /\ result.stms = <<>>
    /\ result.rv.e.x.x = "Bind"

(* a block with a pure declaration that is not folded, its tail being a    *)
(* call with statements                                                    *)
UnfoldedPureDecl ==
    /\ pc = "lowered" /\ result.fail = "ok" /\ expr.x.x = "Block"
    /\ Len(expr.x.stmts) >= 1
    /\ \A i \in 1..Len(expr.x.stmts) : PureDeclAt(expr, pre, i)
    /\ ~PureTail(expr, pre)
    /\ Len(result.stms) = 1

---------------------------------------------------------------------------
(* Pre-state references.                                                   *)

(* a block of one declaration whose tail is a pre-state reference          *)
IsPreRefBlock(e) ==
    /\ e.x.x = "Block"
    /\ Len(e.x.stmts) = 1
    /\ e.x.body # None
    /\ e.x.body[1].x.x = "VarAt"

(* the nearest visible binding of x is not in the outermost scope          *)
ShadowedIn(st, x) ==
    \E i \in 2..Len(st.rename_map) : x \in DOMAIN st.rename_map[i]

(* the pre-state reference of the block is lowered where the name it       *)
(* refers to is shadowed                                                   *)
ShadowedPreRef ==
    /\ pc = "lowered"
    /\ IsPreRefBlock(expr)
    /\ KidRun(expr, pre, 1).fail = "ok"
    /\ KidRun(expr, pre, 1).rv.k # "Never"
    /\ ShadowedIn(KidBefore(expr, pre, 2), expr.x.body[1].x.name)

(* C18: a pre-state reference to a name whose nearest visible binding is   *)
(* not in the outermost scope is returned to the caller as the error       *)
(* "the parameter is shadowed here"; it does not abort.                    *)
C18_ShadowedPreRefDiagnosed ==
    ShadowedPreRef =>
        /\ result.fail = "err"
        /\ result.msg = "the parameter is shadowed here"

(* C18 as stated: such a reference aborts and is not returned as an error  *)
C18_ShadowedPreRefAborts ==
    ShadowedPreRef => result.fail = "panic"

C18_Witness ==
    /\ ShadowedPreRef
    /\ expr.x.body[1].x.name = Id("a")
    /\ result.fail = "err"

(* a pre-state reference to a name with no visible binding aborts          *)
UnboundPreRefAborts ==
    (pc = "lowered" /\ expr.x.x = "VarAt" /\ ~has_var(pre, expr.x.name)) =>
        result.fail = "panic"

---------------------------------------------------------------------------
(* Assignment to a location.                                               *)

(* a variable location, a Loc, or a field of one                           *)
RECURSIVE IsLocation(_)
IsLocation(exp) ==
    \/ exp.x.x \in {"VarLoc", "Loc"}
    \/ exp.x.x = "UnaryOpr" /\ IsLocation(exp.x.e)

(* the destinations of the Assign and Call statements of a statement list  *)
Destinations(stms) ==
    {s.x.lhs.dest : s \in {t \in AllStms(stms) : t.x.x = "Assign"}}
    \cup {s.x.dest[1].dest : s \in {t \in AllStms(stms) : t.x.x = "Call" /\ t.x.dest # None}}

(* an assignment whose left-hand side lowers to a value that is no         *)
(* location                                                                *)
NonLocationAssign ==
    /\ pc = "lowered"
    /\ expr.x.x = "Assign"
    /\ KidRun(expr, pre, 1).fail = "ok"
    /\ KidRun(expr, pre, 1).rv.k = "Some"
    /\ ~IsLocation(KidRun(expr, pre, 1).rv.e)

(* C19: an assignment whose left-hand side does not lower to a location    *)
(* is returned to the caller as an error, and no Assign or Call statement  *)
(* that is emitted has a destination other than a location.                *)
C19_NonLocationAssignRejected ==
    /\ NonLocationAssign => result.fail = "err"
    /\ (pc = "lowered" /\ result.fail = "ok") =>
          \A d \in Destinations(result.stms) : IsLocation(d)

(* outside an assignment to a non-location every destination that is       *)
(* emitted is a location                                                   *)
DestinationsAreLocations ==
    (pc = "lowered" /\ result.fail = "ok" /\ ~NonLocationAssign) =>
        \A d \in Destinations(result.stms) : IsLocation(d)

---------------------------------------------------------------------------
(* Expressions in statement position.                                      *)

(* what a lowering in statement position gave                              *)
Outcome(r) == [fail |-> r.fail, rv |-> r.rv, stms |-> r.stms]

(* a value that is not a synthesized temp variable                         *)
EffectFree(rv) ==
    /\ rv.k = "Some"
    /\ ~(rv.e.x.x = "Var" /\ "tmp" \in DOMAIN rv.e.x.id[1])

(* statement i of a block is lowered: the statements before it lowered,    *)
(* yielded no value with no effect and did not yield Never                 *)
StmtReached(e, st, i) ==
    \A j \in 1..(i - 1) :
        /\ KidRun(e, st, j).fail = "ok"
        /\ KidRun(e, st, j).rv.k # "Never"
        /\ ~EffectFree(KidRun(e, st, j).rv)

(* the lowering of the body of an invariant block, after its invariant     *)
OpenInvariantBody(e, st) ==
    LET r0 == expr_to_stm_opt(st, e.x.inv)
        t == next_temp(r0.state, to_value(r0.rv)[1].span, e.x.inv.typ)
        d == declare_new_var(t.state, t.temp, e.x.inv.typ, FALSE, FALSE)
        b == declare_new_var(push_scope(d.state), e.x.binder.name, e.x.binder.a, TRUE, TRUE)
    IN IF r0.fail = "ok" /\ to_value(r0.rv) # None
       THEN {Outcome(expr_to_stm_opt(b.state, e.x.body))}
       ELSE {}

(* the lowerings of the expressions in statement position in e: the        *)
(* expression statements of a block, the body of a loop, the body of an    *)
(* invariant block                                                         *)
StatementOutcomes(e, st) ==
    CASE e.x.x = "Block" ->
            {Outcome(KidRun(e, st, i)) :
                i \in {j \in 1..Len(e.x.stmts) :
                          e.x.stmts[j].x.x = "Expr" /\ StmtReached(e, st, j)}}
      [] e.x.x = "While" ->
            IF KidRun(e, st, 1).fail = "ok" /\ KidRun(e, st, 1).rv.k = "Some"
            THEN {Outcome(KidRun(e, st, 2))} ELSE {}
      [] e.x.x = "OpenInvariant" -> OpenInvariantBody(e, st)
      [] OTHER -> {}

(* C20: when a block statement, a loop body or the body of an invariant    *)
(* block yields a value that is not a synthesized temp variable, the       *)
(* translation returns the error "expressions with no effect are not       *)
(* supported"; an expression accepted in statement position yields         *)
(* ImplicitUnit, Never or a temp variable and lowered to at least one      *)
(* statement.                                                              *)
C20_NoEffectRejected ==
    pc = "lowered" =>
        \A r \in StatementOutcomes(expr, pre) :
            /\ (r.fail = "ok" /\ EffectFree(r.rv)) =>
                  /\ result.fail = "err"
                  /\ result.msg = "expressions with no effect are not supported"
            /\ (r.fail = "ok" /\ result.fail = "ok") =>
                  /\ \/ r.rv.k \in {"ImplicitUnit", "Never"}
                     \/ r.rv.e.x.x = "Var" /\ "tmp" \in DOMAIN r.rv.e.x.id[1]
                  /\ r.stms # <<>>

(* the second statement of a block is a variable read on its own, after a  *)
(* statement that is accepted                                              *)
C20_Witness ==
    /\ pc = "lowered"
    /\ expr.x.x = "Block"
    /\ Len(expr.x.stmts) = 2
    /\ expr.x.stmts[2].x.x = "Expr"
    /\ StmtReached(expr, pre, 2)
    /\ KidRun(expr, pre, 2).fail = "ok"
    /\ EffectFree(KidRun(expr, pre, 2).rv)
    /\ result.fail = "err"

(* a call statement whose temp variable is accepted                        *)
TempValueAccepted ==
    /\ pc = "lowered" /\ result.fail = "ok"
    /\ \E r \in StatementOutcomes(expr, pre) : r.fail = "ok" /\ r.rv.k = "Some"

(* the body of a loop and of an invariant block rejected                   *)
BodyRejected ==
    /\ pc = "lowered" /\ expr.x.x \in {"While", "OpenInvariant"}
    /\ \E r \in StatementOutcomes(expr, pre) : r.fail = "ok" /\ EffectFree(r.rv)
    /\ result.fail = "err"

---------------------------------------------------------------------------
(* A conditional with a branch that yields no value.                       *)

(* the lowering of the else branch: <<>> and ImplicitUnit when there is    *)
(* none                                                                    *)
ElseRun(e, st) ==
    IF e.x.e2 # None THEN Outcome(KidRun(e, st, 3))
    ELSE [fail |-> "ok", rv |-> RvImplicitUnit(e.span), stms |-> <<>>]

LastBranchState(e, st) == KidRun(e, st, Len(Kids(e))).state

(* the condition of e yields a value, both branches lower, and one branch  *)
(* at least yields ImplicitUnit or Never                                   *)
IfWithNonValue(e, st) ==
    /\ e.x.x = "If"
    /\ \A i \in 1..Len(Kids(e)) : KidRun(e, st, i).fail = "ok"
    /\ KidRun(e, st, 1).rv.k = "Some"
    /\ \/ KidRun(e, st, 2).rv.k \in {"ImplicitUnit", "Never"}
       \/ ElseRun(e, st).rv.k \in {"ImplicitUnit", "Never"}

(* what such a conditional yields                                          *)
NonValueResult(e, v1, v2) ==
    IF v1.k = "ImplicitUnit" \/ v2.k = "ImplicitUnit" THEN RvImplicitUnit(e.span)
    ELSE IF v1.k = "Never" THEN v2
    ELSE v1

(* C21: when the condition yields a value and a branch at least yields     *)
(* ImplicitUnit or Never, the output is the condition's statements and     *)
(* one If statement over the branches' statements, no temp is declared,    *)
(* and the result is ImplicitUnit if a branch is ImplicitUnit, else the    *)
(* ReturnValue of the branch that is not Never (Never when both are).      *)
C21_ConditionalWithNonValue ==
    (pc = "lowered" /\ IfWithNonValue(expr, pre)) =>
        LET r0 == KidRun(expr, pre, 1)
            r1 == KidRun(expr, pre, 2)
            r2 == ElseRun(expr, pre)
            if_stm == result.stms[Len(result.stms)]
        IN /\ result.fail = "ok"
           /\ Len(result.stms) = Len(r0.stms) + 1
           /\ SubSeq(result.stms, 1, Len(r0.stms)) = r0.stms
           /\ if_stm.x.x = "If" /\ if_stm.span = expr.span
           /\ if_stm.x.cond = r0.rv.e
           /\ BranchStms(expr, if_stm.x.thn) = r1.stms
           /\ IF r2.stms = <<>> THEN if_stm.x.els = None
              ELSE if_stm.x.els # None /\ BranchStms(expr, if_stm.x.els[1]) = r2.stms
           /\ state.next_var = LastBranchState(expr, pre).next_var
           /\ state.local_decls = LastBranchState(expr, pre).local_decls
           /\ result.rv = NonValueResult(expr, r1.rv, r2.rv)

(* one branch yields a value with statements and the other never returns:  *)
(* the conditional yields that value                                       *)
C21_Witness ==
    /\ pc = "lowered" /\ IfWithNonValue(expr, pre)
    /\ KidRun(expr, pre, 2).rv.k = "Never"
    /\ ElseRun(expr, pre).rv.k = "Some"
    /\ result.fail = "ok" /\ result.rv.k = "Some"

(* the other cases of the rule                                             *)
UnitAndNever ==
    /\ pc = "lowered" /\ IfWithNonValue(expr, pre)
    /\ {KidRun(expr, pre, 2).rv.k, ElseRun(expr, pre).rv.k} = {"ImplicitUnit", "Never"}
    /\ result.rv.k = "ImplicitUnit"

BothNever ==
    /\ pc = "lowered" /\ IfWithNonValue(expr, pre)
    /\ KidRun(expr, pre, 2).rv.k = "Never" /\ ElseRun(expr, pre).rv.k = "Never"
    /\ result.rv.k = "Never"

NoElseBranch ==
    /\ pc = "lowered" /\ IfWithNonValue(expr, pre)
    /\ expr.x.e2 = None
    /\ result.rv.k = "ImplicitUnit"

---------------------------------------------------------------------------
(* Assignment from a statement-form call.                                  *)

(* the right-hand side of the assignment e, seen as a call statement       *)
RhsCall(e, st) == expr_must_be_call_stm(KidRun(e, st, 1).state, e.x.rhs)

(* e assigns the result of a statement-form call to a left-hand side that  *)
(* lowers to a value                                                       *)
AssignFromCall(e, st) ==
    /\ e.x.x = "Assign"
    /\ KidRun(e, st, 1).fail = "ok"
    /\ KidRun(e, st, 1).rv.k = "Some"
    /\ RhsCall(e, st).fail = "ok"
    /\ RhsCall(e, st).call.k = "Call"

LhsValue(e, st) == KidRun(e, st, 1).rv.e

(* the statements before the call: those of the left-hand side, then those *)
(* of the arguments                                                        *)
BeforeCall(e, st) == KidRun(e, st, 1).stms \o RhsCall(e, st).stms

(* stms are the statements before the call, the call with its hoists, and  *)
(* the statements after                                                    *)
CallAfterOperands(e, st, stms, after) ==
    /\ Len(stms) = Len(BeforeCall(e, st)) + 1 + Len(after)
    /\ SubSeq(stms, 1, Len(BeforeCall(e, st))) = BeforeCall(e, st)
    /\ SubSeq(stms, Len(BeforeCall(e, st)) + 2, Len(stms)) = after

(* the Call statement emitted for the assignment                           *)
TheCall(e, st, stms) ==
    LET at == stms[Len(BeforeCall(e, st)) + 1]
    IN IF at.x.x = "Block" THEN at.x.stms[Len(at.x.stms)] ELSE at

(* the left-hand side is a simple variable location: it is the call's      *)
(* destination, with the first-write flag of the assignment                *)
DirectDestination(e, st, res) ==
    /\ res.fail = "ok"
    /\ CallAfterOperands(e, st, res.stms, <<>>)
    /\ TheCall(e, st, res.stms).x.x = "Call"
    /\ TheCall(e, st, res.stms).x.dest = Some(Dest(LhsValue(e, st), e.x.init_not_mut))
    /\ res.rv.k = "ImplicitUnit"

(* the call writes a fresh temp, first-write, and one assignment of the    *)
(* temp to the left-hand side follows                                      *)
ThroughTemp(e, st, res) ==
    /\ res.fail = "ok"
    /\ Len(res.stms) = Len(BeforeCall(e, st)) + 2
    /\ LET assign == res.stms[Len(res.stms)]
           call == TheCall(e, st, res.stms)
       IN /\ CallAfterOperands(e, st, res.stms, <<assign>>)
          /\ call.x.x = "Call"
          /\ call.x.dest # None
          /\ call.x.dest[1].is_init
          /\ call.x.dest[1].dest.x.x = "VarLoc"
          /\ is_temp_var(call.x.dest[1].dest.x.id[1])
          /\ call.x.dest[1].dest.x.id \notin DeclaredIdents(RhsCall(e, st).state)
          /\ call.x.dest[1].dest.x.id \in DeclaredIdents(res.state)
          /\ assign.x.x = "Assign"
          /\ assign.x.lhs = Dest(LhsValue(e, st), FALSE)
          /\ assign.x.rhs.x = XVar(call.x.dest[1].dest.x.id)
    /\ res.rv.k = "ImplicitUnit"

(* every destination marked first-write is a simple variable location      *)
FirstWritesAreSimple(stms) ==
    \A s \in AllStms(stms) :
        /\ s.x.x = "Assign" /\ s.x.lhs.is_init => s.x.lhs.dest.x.x = "VarLoc"
        /\ (s.x.x = "Call" /\ s.x.dest # None /\ s.x.dest[1].is_init) =>
              s.x.dest[1].dest.x.x = "VarLoc"

(* C22: in an assignment from a statement-form call, a left-hand side that *)
(* is a simple variable location is the call's destination, with the       *)
(* first-write flag of the assignment; any other left-hand side of an      *)
(* assignment that is not a first-write gets a fresh temp as first-write   *)
(* destination and one assignment of the temp after the call; a            *)
(* first-write to any other left-hand side aborts; every destination       *)
(* marked first-write in an assignment from a call is a simple variable    *)
(* location.                                                               *)
C22_AssignFromCall ==
    (pc = "lowered" /\ AssignFromCall(expr, pre)) =>
        /\ IF LhsValue(expr, pre).x.x = "VarLoc" THEN DirectDestination(expr, pre, result)
           ELSE IF ~expr.x.init_not_mut THEN ThroughTemp(expr, pre, result)
           ELSE result.fail = "panic"
        /\ result.fail = "ok" => FirstWritesAreSimple(result.stms)

(* C22 as stated: a first-write to a left-hand side that is not a simple   *)
(* variable location goes through a temp as well and does not abort        *)
C22_FirstWriteThroughTemp ==
    (pc = "lowered" /\ AssignFromCall(expr, pre)) =>
        /\ IF LhsValue(expr, pre).x.x = "VarLoc" THEN DirectDestination(expr, pre, result)
           ELSE ThroughTemp(expr, pre, result)
        /\ result.fail = "ok" => FirstWritesAreSimple(result.stms)

(* a call assigned to a field: the temp and the assignment after the call  *)
C22_Witness ==
    /\ pc = "lowered" /\ AssignFromCall(expr, pre)
    /\ LhsValue(expr, pre).x.x = "Loc"
    /\ ~expr.x.init_not_mut
    /\ ThroughTemp(expr, pre, result)

(* a first-write of a call to a variable                                   *)
FirstWriteToVariable ==
    /\ pc = "lowered" /\ AssignFromCall(expr, pre)
    /\ LhsValue(expr, pre).x.x = "VarLoc"
    /\ expr.x.init_not_mut
    /\ DirectDestination(expr, pre, result)

---------------------------------------------------------------------------
(* Proof blocks (forall / assert-by).                                      *)

(* the lowering of the proof of e, in the scope of its variables           *)
ProofRun(e, st) ==
    expr_to_stm_opt(forall_vars(push_scope(st), e, e.x.vars, <<>>).state, e.x.proof)

(* the hypothesis and the conclusion as pure values, lowered in the scope  *)
(* of the variables after the proof                                        *)
RequireRun(e, st) == expr_to_pure_exp(ProofRun(e, st).state, e.x.require)
EnsureRun(e, st) == expr_to_pure_exp(RequireRun(e, st).state, e.x.ensure)

(* stm assumes that a variable named x has the type typ                    *)
IsTypeAssumption(stm, x, typ) ==
    /\ stm.x.x = "Assume"
    /\ stm.x.e.x.x = "UnaryOpr"
    /\ stm.x.e.x.opr = OprHasType(typ)
    /\ stm.x.e.x.e.x.x = "Var"
    /\ stm.x.e.x.e.x.id[1] = x

(* exp is forall vars. hyp ==> concl                                       *)
IsForallImplies(exp, vs) ==
    /\ exp.x.x = "Bind"
    /\ exp.x.bnd.x.x = "Quant"
    /\ exp.x.bnd.x.quant = "Forall"
    /\ exp.x.bnd.x.binders = vs
    /\ exp.x.e.x.x = "Binary"
    /\ exp.x.e.x.op = OpImplies

(* body is: one type assumption per variable and the assumption of the     *)
(* hypothesis, then the statements of the proof, then the assertion of     *)
(* the conclusion                                                          *)
DeadEndBody(e, body, proof_stms, hyp, concl) ==
    LET n == Len(e.x.vars)
    IN /\ Len(body) = n + 1 + Len(proof_stms) + 1
       /\ \A i \in 1..n : IsTypeAssumption(body[i], e.x.vars[i].name, e.x.vars[i].a)
       /\ body[n + 1].x.x = "Assume"
       /\ body[n + 1].span = e.x.require.span
       /\ body[n + 1].x.e = hyp
       /\ SubSeq(body, n + 2, n + 1 + Len(proof_stms)) = proof_stms
       /\ body[Len(body)].x.x = "Assert"
       /\ body[Len(body)].span = e.x.ensure.span
       /\ body[Len(body)].x.e = concl
       /\ \A i \in (n + 2)..Len(body) : body[i].x.x # "Assume" \/ body[i] \in AllStms(proof_stms)

(* C23: a proof block that lowers gives two statements, a DeadEnd and      *)
(* Assume(forall vars. require ==> ensure); in the DeadEnd the type        *)
(* assumptions and the hypothesis precede the proof's statements and the   *)
(* assertion of the conclusion is last; no statement of the proof is       *)
(* outside the DeadEnd; the result is ImplicitUnit, also when the proof    *)
(* yields Never; a proof that yields a value is an error.                  *)
C23_ProofBlock ==
    (pc = "lowered" /\ expr.x.x = "Forall") =>
        /\ (ProofRun(expr, pre).fail = "ok" /\ ProofRun(expr, pre).rv.k = "Some") =>
              /\ result.fail = "err"
              /\ result.msg = "forall/assert-by cannot end with an expression"
        /\ result.fail = "ok" =>
              /\ Len(result.stms) = 2
              /\ result.stms[1].x.x = "DeadEnd"
              /\ result.stms[1].x.s.x.x = "Block"
              /\ result.stms[2].x.x = "Assume"
              /\ IsForallImplies(result.stms[2].x.e, expr.x.vars)
              /\ DeadEndBody(expr, result.stms[1].x.s.x.stms, ProofRun(expr, pre).stms,
                             RequireRun(expr, pre).rv.e, EnsureRun(expr, pre).rv.e)
              /\ result.rv = RvImplicitUnit(expr.span)

(* a proof with statements that never returns                              *)
C23_Witness ==
    /\ pc = "lowered" /\ expr.x.x = "Forall"
    /\ ProofRun(expr, pre).fail = "ok"
    /\ ProofRun(expr, pre).rv.k = "Never"
    /\ ProofRun(expr, pre).stms # <<>>
    /\ result.fail = "ok"
    /\ result.rv.k = "ImplicitUnit"

(* a proof that ends with a value                                          *)
ProofWithValue ==
    /\ pc = "lowered" /\ expr.x.x = "Forall"
    /\ ProofRun(expr, pre).fail = "ok" /\ ProofRun(expr, pre).rv.k = "Some"
    /\ result.fail = "err"

---------------------------------------------------------------------------
(* Invariant blocks.                                                       *)

InvRun(e, st) == expr_to_stm_opt(st, e.x.inv)

(* the state in which the body of the invariant block e is lowered, and    *)
(* the identities declared on the way                                      *)
InvBodyEntry(e, st) ==
    LET r0 == InvRun(e, st)
        t == next_temp(r0.state, to_value(r0.rv)[1].span, e.x.inv.typ)
        d == declare_new_var(t.state, t.temp, e.x.inv.typ, FALSE, FALSE)
        b == declare_new_var(push_scope(d.state), e.x.binder.name, e.x.binder.a, TRUE, TRUE)
    IN [state |-> b.state, temp_id |-> d.id, binder_id |-> b.id]

InvBodyRun(e, st) == expr_to_stm_opt(InvBodyEntry(e, st).state, e.x.body)

(* an invariant block whose invariant yields a value and that lowers       *)
InvariantBlockLowered ==
    /\ pc = "lowered" /\ expr.x.x = "OpenInvariant"
    /\ InvRun(expr, pre).fail = "ok"
    /\ InvRun(expr, pre).rv.k # "Never"
    /\ result.fail = "ok"

(* the LocalDecls of the identity id                                       *)
DeclsOf(st, id) == {i \in DOMAIN st.local_decls : st.local_decls[i].ident = id}

(* C24: an invariant block that lowers gives the statements of its         *)
(* invariant once, the first-write assignment of the invariant's value to  *)
(* a fresh immutable temp, and one OpenInvariant statement that names the  *)
(* invariant by that temp; the binder is a mutable renamed local, visible  *)
(* in the body and no longer after; the result is Never if the body        *)
(* yields Never and ImplicitUnit otherwise.                                *)
C24_InvariantBlock ==
    InvariantBlockLowered =>
        LET r0 == InvRun(expr, pre)
            n == Len(r0.stms)
            entry == InvBodyEntry(expr, pre)
            r1 == InvBodyRun(expr, pre)
            open == result.stms[n + 2]
        IN /\ Len(result.stms) = n + 2
           /\ SubSeq(result.stms, 1, n) = r0.stms
           /\ is_temp_var(entry.temp_id[1])
           /\ entry.temp_id \notin DeclaredIdents(r0.state)
           /\ IsInitOf(result.stms[n + 1], entry.temp_id, to_value(r0.rv)[1])
           /\ \E i \in DeclsOf(state, entry.temp_id) : ~state.local_decls[i].mutable
           /\ Cardinality(AssignsTo(entry.temp_id, result.stms)) = 1
           /\ open.x.x = "OpenInvariant" /\ open.span = expr.span
           /\ Cardinality({s \in AllStms(result.stms) :
                              s.x.x = "OpenInvariant" /\ s.span = expr.span}) = 1
           /\ open.x.inv.x = XVar(entry.temp_id)
           /\ open.x.id = entry.binder_id
           /\ open.x.atomicity = expr.x.atomicity
           /\ entry.binder_id[1] = expr.x.binder.name
           /\ entry.binder_id[2] # None
           /\ \E i \in DeclsOf(state, entry.binder_id) : state.local_decls[i].mutable
           /\ get_var_unique_id(entry.state, expr.x.binder.name) = entry.binder_id
           /\ ScopeDepth(entry.state) = ScopeDepth(pre) + 1
           /\ ScopeDepth(state) = ScopeDepth(pre)
           /\ ~has_var(state, expr.x.binder.name)
           /\ BranchStms(expr, open.x.body) = r1.stms
           /\ result.rv = IF r1.rv.k = "Never" THEN RvNever ELSE RvImplicitUnit(expr.span)

(* an invariant with statements and a body that never returns              *)
C24_Witness ==
    /\ InvariantBlockLowered
    /\ InvRun(expr, pre).stms # <<>>
    /\ InvBodyRun(expr, pre).rv.k = "Never"
    /\ result.rv.k = "Never"

(* a body that writes the binder and returns                               *)
InvariantBodyReturns ==
    /\ InvariantBlockLowered
    /\ InvBodyRun(expr, pre).rv.k = "ImplicitUnit"
    /\ InvBodyRun(expr, pre).stms # <<>>
    /\ result.rv.k = "ImplicitUnit"

---------------------------------------------------------------------------
(* Finalization of the output.                                             *)

(* exp with the generation erased from each variable that a let-Binding    *)
(* around it binds; env holds the names the enclosing let-Bindings bind    *)
RECURSIVE Erased(_, _)
RECURSIVE ErasedSeq(_, _)
RECURSIVE ErasedBinders(_, _)

ErasedSeq(es, env) == [i \in DOMAIN es |-> Erased(es[i], env)]

ErasedBinders(bs, env) == [i \in DOMAIN bs |-> [bs[i] EXCEPT !.a = Erased(@, env)]]

Erased(exp, env) ==
    CASE exp.x.x = "Var" ->
            IF exp.x.id[1] \in env THEN [exp EXCEPT !.x.id = <<exp.x.id[1], None>>] ELSE exp
      [] exp.x.x \in {"Loc", "Unary", "UnaryOpr"} -> [exp EXCEPT !.x.e = Erased(@, env)]
      [] exp.x.x = "Call" -> [exp EXCEPT !.x.args = ErasedSeq(@, env)]
      [] exp.x.x = "CallLambda" ->
            [exp EXCEPT !.x.e = Erased(@, env), !.x.args = ErasedSeq(@, env)]
      [] exp.x.x = "Ctor" -> [exp EXCEPT !.x.binders = ErasedBinders(@, env)]
      [] exp.x.x = "Binary" ->
            [exp EXCEPT !.x.e1 = Erased(@, env), !.x.e2 = Erased(@, env)]
      [] exp.x.x = "If" ->
            [exp EXCEPT !.x.e0 = Erased(@, env), !.x.e1 = Erased(@, env),
                        !.x.e2 = Erased(@, env)]
      [] exp.x.x = "Bind" /\ exp.x.bnd.x.x = "Let" ->
            [exp EXCEPT !.x.bnd.x.binders = ErasedBinders(@, env),
                        !.x.e = Erased(@, env \cup {exp.x.bnd.x.binders[i].name :
                                                       i \in DOMAIN exp.x.bnd.x.binders})]
      [] exp.x.x = "Bind" /\ exp.x.bnd.x.x = "Choose" ->
            [exp EXCEPT !.x.bnd.x.cond = Erased(@, env), !.x.e = Erased(@, env)]
      [] exp.x.x = "Bind" /\ exp.x.bnd.x.x \in {"Quant", "Lambda"} ->
            [exp EXCEPT !.x.e = Erased(@, env)]
      [] OTHER -> exp

ErasedDest(d) == [d EXCEPT !.dest = Erased(@, {})]

(* the same for the expressions of a statement                             *)
RECURSIVE ErasedStm(_)
ErasedStms(stms) == [i \in DOMAIN stms |-> ErasedStm(stms[i])]

ErasedStm(stm) ==
    CASE stm.x.x = "Assign" ->
            [stm EXCEPT !.x.lhs = ErasedDest(@), !.x.rhs = Erased(@, {})]
      [] stm.x.x = "Call" ->
            [stm EXCEPT !.x.args = ErasedSeq(@, {}),
                        !.x.dest = [i \in DOMAIN @ |-> ErasedDest(@[i])]]
      [] stm.x.x \in {"Assert", "AssertBV", "Assume"} -> [stm EXCEPT !.x.e = Erased(@, {})]
      [] stm.x.x = "If" ->
            [stm EXCEPT !.x.cond = Erased(@, {}), !.x.thn = ErasedStm(@),
                        !.x.els = [i \in DOMAIN @ |-> ErasedStm(@[i])]]
      [] stm.x.x = "While" ->
            [stm EXCEPT !.x.cond_stms = [i \in DOMAIN @ |-> ErasedStm(@[i])],
                        !.x.cond_exp = Erased(@, {}),
                        !.x.body = ErasedStm(@),
                        !.x.invs = ErasedSeq(@, {})]
      [] stm.x.x = "Block" -> [stm EXCEPT !.x.stms = [i \in DOMAIN @ |-> ErasedStm(@[i])]]
      [] stm.x.x = "DeadEnd" -> [stm EXCEPT !.x.s = ErasedStm(@)]
      [] stm.x.x = "OpenInvariant" ->
            [stm EXCEPT !.x.inv = Erased(@, {}), !.x.body = ErasedStm(@)]
      [] OTHER -> stm

(* the output of the lowering, before it is finalized                      *)
Unfinalized == expr_to_stm_opt(pre, expr)

---------------------------------------------------------------------------
(* Name resolution.                                                        *)

(* the expressions directly under an expression of the output              *)
SubExps(exp) ==
    CASE exp.x.x \in {"Loc", "Unary", "UnaryOpr"} -> {exp.x.e}
      [] exp.x.x = "Call" -> {exp.x.args[i] : i \in DOMAIN exp.x.args}
      [] exp.x.x = "CallLambda" -> {exp.x.e} \cup {exp.x.args[i] : i \in DOMAIN exp.x.args}
      [] exp.x.x = "Ctor" -> {exp.x.binders[i].a : i \in DOMAIN exp.x.binders}
      [] exp.x.x = "Binary" -> {exp.x.e1, exp.x.e2}
      [] exp.x.x = "If" -> {exp.x.e0, exp.x.e1, exp.x.e2}
      [] exp.x.x = "Bind" /\ exp.x.bnd.x.x = "Let" ->
            {exp.x.e} \cup {exp.x.bnd.x.binders[i].a : i \in DOMAIN exp.x.bnd.x.binders}
      [] exp.x.x = "Bind" /\ exp.x.bnd.x.x = "Choose" -> {exp.x.e, exp.x.bnd.x.cond}
      [] exp.x.x = "Bind" -> {exp.x.e}
      [] OTHER -> {}

RECURSIVE ExpsOf(_)
ExpsOf(exp) == {exp} \cup UNION {ExpsOf(s) : s \in SubExps(exp)}

(* the expressions a statement of the output holds itself                  *)
StmExps(stm) ==
    CASE stm.x.x = "Assign" -> {stm.x.lhs.dest, stm.x.rhs}
      [] stm.x.x = "Call" ->
            {stm.x.args[i] : i \in DOMAIN stm.x.args}
            \cup {stm.x.dest[i].dest : i \in DOMAIN stm.x.dest}
      [] stm.x.x \in {"Assert", "AssertBV", "Assume"} -> {stm.x.e}
      [] stm.x.x = "If" -> {stm.x.cond}
      [] stm.x.x = "While" -> {stm.x.cond_exp} \cup {stm.x.invs[i] : i \in DOMAIN stm.x.invs}
      [] stm.x.x = "OpenInvariant" -> {stm.x.inv}
      [] OTHER -> {}

(* the variables an output reads (a VarLoc is a destination, no read),     *)
(* each with the span it was lowered from                                  *)
OutputRefs(r) ==
    LET tops == UNION {StmExps(s) : s \in AllStms(r.stms)}
                \cup (IF r.rv.k = "Some" THEN {r.rv.e} ELSE {})
        all == UNION {ExpsOf(t) : t \in tops}
    IN {<<x.span, x.x.id>> : x \in {y \in all : y.x.x \in {"Var", "VarAt"}}}

(* Lexical scoping, stated without the scope map: env maps each name that  *)
(* has an open binding to its generation, cnt each name that was declared  *)
(* at statement level to the last generation given out.  Resolve walks a   *)
(* source expression made of variables, binary operations, static calls    *)
(* and blocks of declarations in evaluation order and yields the expected  *)
(* reference of every variable, ok = FALSE when one has no open binding.   *)
RECURSIVE Resolve(_, _, _)
RECURSIVE ResolveSeq(_, _, _, _)
RECURSIVE ResolveDecls(_, _, _, _, _)

ResolveSeq(es, env, cnt, acc) ==
    IF es = <<>> THEN acc
    ELSE LET next(r) == ResolveSeq(Tail(es), env, r.cnt,
                                   [refs |-> acc.refs \cup r.refs, cnt |-> r.cnt,
                                    ok |-> acc.ok /\ r.ok])
         IN next(Resolve(Head(es), env, IF acc.ok THEN acc.cnt ELSE cnt))

ResolveDecls(stmts, body, env, cnt, acc) ==
    IF stmts = <<>>
    THEN LET tail(r) == [refs |-> acc.refs \cup r.refs, cnt |-> r.cnt, ok |-> acc.ok /\ r.ok]
         IN tail(Resolve(body, env, cnt))
    ELSE LET n == Head(stmts).x.pattern.x.name
             declared(r) ==
                 LET g == IF n \in DOMAIN r.cnt THEN r.cnt[n] + 1 ELSE 0
                 IN ResolveDecls(Tail(stmts), body, MapPut(env, n, g), MapPut(r.cnt, n, g),
                                 [refs |-> acc.refs \cup r.refs, cnt |-> r.cnt,
                                  ok |-> acc.ok /\ r.ok])
         IN declared(Resolve(Head(stmts).x.init[1], env, cnt))

Resolve(e, env, cnt) ==
    CASE e.x.x = "Var" ->
            IF e.x.name \in DOMAIN env
            THEN [refs |-> {<<e.span, <<e.x.name, Some(env[e.x.name])>>>>}, cnt |-> cnt,
                  ok |-> TRUE]
            ELSE [refs |-> {}, cnt |-> cnt, ok |-> FALSE]
      [] e.x.x = "Binary" ->
            ResolveSeq(<<e.x.e1, e.x.e2>>, env, cnt, [refs |-> {}, cnt |-> cnt, ok |-> TRUE])
      [] e.x.x = "Call" ->
            ResolveSeq(e.x.args, env, cnt, [refs |-> {}, cnt |-> cnt, ok |-> TRUE])
      [] e.x.x = "Block" ->
            ResolveDecls(e.x.stmts, e.x.body[1], env, cnt,
                         [refs |-> {}, cnt |-> cnt, ok |-> TRUE])

(* the bindings the caller opened: every parameter at generation 0         *)
ParamEnv == [n \in {Params[i].name : i \in DOMAIN Params} |-> 0]

ScopingInputs == Shadows(<<>>) \cup ShadowsTwice(<<>>) \cup ShadowThenRead(<<>>)

Expected == Resolve(expr, ParamEnv, ParamEnv)

(* the source names that have an open binding                              *)
SourceNames(st) ==
    {n \in UNION {DOMAIN st.rename_map[i] : i \in DOMAIN st.rename_map} : ~is_temp_var(n)}

(* C26: a variable reference resolves to the most recently declared        *)
(* binding of its name whose scope is still open: the initializer of a     *)
(* declaration to the binding before the declaration, a reference after a  *)
(* block to the binding outside the block; the lookup of a name without an *)
(* open binding aborts the translation; the lowering leaves the scopes as  *)
(* it found them.                                                          *)
C26_NameResolution ==
    /\ (pc = "lowered" /\ expr \in ScopingInputs) =>
          IF Expected.ok
          THEN /\ result.fail = "ok"
               /\ {r \in OutputRefs(result) : r[1] \in {q[1] : q \in Expected.refs}}
                     = Expected.refs
          ELSE /\ result.fail = "panic"
               /\ result.msg = "internal error: variable not in rename_map"
    /\ (pc = "lowered" /\ result.fail = "ok") =>
          /\ scope_map_num_scopes(state.rename_map) = scope_map_num_scopes(pre.rename_map)
          /\ \A n \in SourceNames(pre) \cup SourceNames(state) :
                /\ has_var(state, n) = has_var(pre, n)
                /\ has_var(pre, n) => get_var_unique_id(state, n) = get_var_unique_id(pre, n)

(* { let a = b; let a = a; a } + a is lowered: the second initializer      *)
(* reads the first declaration, the tail the second, the operand after the *)
(* block the parameter                                                     *)
C26_Witness ==
    /\ pc = "lowered"
    /\ expr \in ShadowThenRead(<<>>)
    /\ result.fail = "ok"
    /\ {<<<<1, 2, 1>>, <<Id("a"), Some(1)>>>>, <<<<1, 0>>, <<Id("a"), Some(2)>>>>,
        <<<<2>>, <<Id("a"), Some(0)>>>>} \subseteq OutputRefs(result)

(* { let x = a; x } + x aborts at the read of x after the block            *)
UnboundAfterExit ==
    /\ pc = "lowered"
    /\ expr \in ShadowThenRead(<<>>)
    /\ expr.x.x = "Binary"
    /\ expr.x.e1.x.stmts[1].x.init[1].x.name = Id("a")
    /\ Len(expr.x.e1.x.stmts) = 1
    /\ expr.x.e1.x.stmts[1].x.pattern.x.name = Id("x")
    /\ result.fail = "panic"

---------------------------------------------------------------------------
(* Pure contexts.                                                          *)

(* the sub-expressions of e that are lowered through expr_to_pure_exp, in  *)
(* the order in which they are lowered                                     *)
PureSubs(e) ==
    CASE e.x.x \in {"Quant", "Closure"} -> <<e.x.body>>
      [] e.x.x = "Choose" -> <<e.x.cond, e.x.body>>
      [] e.x.x = "AssertBV" -> <<e.x.e>>
      [] e.x.x = "Call" /\ e.x.target.k = "FnSpec" -> <<e.x.target.e>> \o e.x.args
      [] e.x.x = "While" -> e.x.invs
      [] e.x.x = "Forall" -> <<e.x.require, e.x.ensure>>
      [] OTHER -> <<>>

WhileCondRun(e, st) == expr_to_stm_opt(st, e.x.cond)
WhileBodyRun(e, st) == expr_to_stm_opt(WhileCondRun(e, st).state, e.x.body)

(* the state in which the first of them is lowered                         *)
PureEntry(e, st) ==
    CASE e.x.x = "Quant" -> declare_binders(push_scope(st), e.x.binders)
      [] e.x.x \in {"Closure", "Choose"} -> declare_binders(push_scope(st), e.x.params)
      [] e.x.x = "While" -> WhileBodyRun(e, st).state
      [] e.x.x = "Forall" -> ProofRun(e, st).state
      [] OTHER -> st

(* the translation gets as far as the first of them                        *)
PureReached(e, st) ==
    CASE e.x.x = "While" ->
            /\ WhileCondRun(e, st).fail = "ok"
            /\ WhileCondRun(e, st).rv.k = "Some"
            /\ WhileBodyRun(e, st).fail = "ok"
            /\ WhileBodyRun(e, st).rv.k # "Some"
      [] e.x.x = "Forall" -> ProofRun(e, st).fail = "ok" /\ ProofRun(e, st).rv.k # "Some"
      [] OTHER -> TRUE

(* the plain lowering of the i-th of them, those before it lowered in turn *)
RECURSIVE PureRun(_, _, _)
PureRun(e, st, i) ==
    expr_to_stm_opt(IF i = 1 THEN PureEntry(e, st) ELSE PureRun(e, st, i - 1).state,
                    PureSubs(e)[i])

(* a lowering that is a value and no statement                             *)
IsPureValue(r) == r.fail = "ok" /\ r.stms = <<>> /\ r.rv.k # "Never"

(* the i-th is the first one that lowers to a statement or to Never        *)
FirstImpureAt(e, st, i) ==
    /\ \A j \in 1..(i - 1) : IsPureValue(PureRun(e, st, j))
    /\ PureRun(e, st, i).fail = "ok"
    /\ ~IsPureValue(PureRun(e, st, i))

(* the statements an accepted context emits beside its pure parts          *)
OwnStatements(e) ==
    CASE e.x.x = "AssertBV" -> {"AssertBV"}
      [] e.x.x = "While" -> {"While", "Assume"}
      [] e.x.x = "Forall" -> {"DeadEnd", "Assume"}
      [] OTHER -> {}

(* C27: in a context that is lowered through expr_to_pure_exp (quantifier  *)
(* body, closure body, choose condition and body, loop invariants, forall  *)
(* hypothesis and conclusion, assert-bit-vector argument, target and       *)
(* arguments of a spec-closure call) a sub-expression that lowers to one   *)
(* statement or more, or to Never, makes the translation return a          *)
(* diagnosed error; a context that is accepted has only pure parts and     *)
(* emits no statement for them.                                            *)
C27_PureContexts ==
    (pc = "lowered" /\ PureSubs(expr) # <<>> /\ PureReached(expr, pre)) =>
        /\ (\E i \in DOMAIN PureSubs(expr) : FirstImpureAt(expr, pre, i)) =>
              /\ result.fail = "err"
              /\ result.msg \in {"expected pure mathematical expression",
                                 "expression must produce a value"}
        /\ result.fail = "ok" =>
              /\ \A i \in DOMAIN PureSubs(expr) : IsPureValue(PureRun(expr, pre, i))
              /\ \A i \in DOMAIN result.stms : result.stms[i].x.x \in OwnStatements(expr)
              /\ expr.x.x = "While" =>
                    result.stms[1].x.invs =
                        [i \in DOMAIN expr.x.invs |-> to_value(PureRun(expr, pre, i).rv)[1]]

(* a loop whose second invariant is a call with statements is rejected     *)
C27_Witness ==
    /\ pc = "lowered"
    /\ expr.x.x = "While"
    /\ Len(expr.x.invs) = 2
    /\ PureReached(expr, pre)
    /\ FirstImpureAt(expr, pre, 2)
    /\ result.fail = "err"
    /\ result.msg = "expected pure mathematical expression"

(* a choose whose body returns is rejected: it produces no value           *)
PureNever ==
    /\ pc = "lowered"
    /\ expr.x.x = "Choose"
    /\ FirstImpureAt(expr, pre, 2)
    /\ PureRun(expr, pre, 2).rv.k = "Never"
    /\ result.msg = "expression must produce a value"

(* a spec-closure call with a pure target and two pure arguments lowers to *)
(* no statement                                                            *)
PureAccepted ==
    /\ pc = "lowered"
    /\ expr.x.x = "Call"
    /\ expr.x.target.k = "FnSpec"
    /\ Len(expr.x.args) = 2
    /\ result.fail = "ok"
    /\ result.stms = <<>>

(* a spec-closure call whose argument is a call with statements            *)
ImpureArgument ==
    /\ pc = "lowered"
    /\ expr.x.x = "Call"
    /\ expr.x.target.k = "FnSpec"
    /\ Len(expr.x.args) = 1
    /\ FirstImpureAt(expr, pre, 2)
    /\ result.fail = "err"

---------------------------------------------------------------------------
(* Declared identities.                                                    *)

(* the temps the counter gave out during the lowering                      *)
TempsSince(st0, st1) == {<<TmpIdent(k), Some(0)>> : k \in (st0.next_var + 1)..st1.next_var}

(* the identities of temps among the LocalDecls                            *)
DeclaredTemps(st) == {id \in DeclaredIdents(st) : is_temp_var(id[1])}

(* the temps the output reads or writes                                    *)
OutputTemps(r) ==
    LET tops == UNION {StmExps(s) : s \in AllStms(r.stms)}
                \cup (IF r.rv.k = "Some" THEN {r.rv.e} ELSE {})
        all == UNION {ExpsOf(t) : t \in tops}
    IN {x.x.id : x \in {y \in all : /\ y.x.x \in {"Var", "VarLoc", "VarAt"}
                                   /\ is_temp_var(y.x.id[1])}}

(* the identities that the declaration statements of a block received, in  *)
(* the order of the statements; a statement that is no declaration, or     *)
(* whose initializer does not return, has none                             *)
BlockDeclIdents(e, st) ==
    [i \in 1..Len(e.x.stmts) |->
        IF /\ \A j \in 1..i : KidRun(e, st, j).fail = "ok"
           /\ KidRun(e, st, i).decl_bnd # None
        THEN Some(KidRun(e, st, i).decl_bnd[1].decl.ident)
        ELSE None]

(* C28: after a translation the identities in the LocalDecl list are       *)
(* pairwise distinct; the temp counter does not go back, the temps it gave *)
(* out are the temps declared since, each with one LocalDecl, and the      *)
(* output names no other temp; the declaration statements of one name in a *)
(* block receive different generations.                                    *)
C28_DeclaredIdentitiesUnique ==
    pc = "lowered" =>
        /\ \A i, j \in DOMAIN state.local_decls :
              i # j => state.local_decls[i].ident # state.local_decls[j].ident
        /\ state.next_var >= pre.next_var
        /\ DeclaredTemps(state) \ DeclaredTemps(pre) = TempsSince(pre, state)
        /\ \A t \in TempsSince(pre, state) : Cardinality(DeclsOf(state, t)) = 1
        /\ result.fail = "ok" => OutputTemps(result) \subseteq TempsSince(pre, state)
        /\ expr.x.x = "Block" =>
              \A i, j \in 1..Len(expr.x.stmts) :
                 (/\ i < j
                  /\ BlockDeclIdents(expr, pre)[i] # None
                  /\ BlockDeclIdents(expr, pre)[j] # None)
                 => BlockDeclIdents(expr, pre)[i] # BlockDeclIdents(expr, pre)[j]

(* a block declares a twice at statement level and calls with a temp: the  *)
(* LocalDecl list holds a at generations 1 and 2 beside the parameter, and *)
(* the temp once                                                           *)
C28_Witness ==
    /\ pc = "lowered"
    /\ result.fail = "ok"
    /\ expr \in ShadowsTwice(<<>>)
    /\ {<<Id("a"), Some(0)>>, <<Id("a"), Some(1)>>, <<Id("a"), Some(2)>>}
          \subseteq DeclaredIdents(state)
    /\ TempsSince(pre, state) # {}
    /\ BlockDeclIdents(expr, pre) = <<Some(<<Id("a"), Some(1)>>), Some(<<Id("a"), Some(2)>>)>>

(* a translation that declares two temps                                   *)
TwoTemps ==
    /\ pc = "lowered"
    /\ result.fail = "ok"
    /\ Cardinality(TempsSince(pre, state)) >= 2

====
